---------------------------- MODULE Spec2Model ----------------------------
(***************************************************************************)
(* A model of two parts of authd:                                          *)
(*                                                                         *)
(*   - the GDM side of the PAM client, pam/internal/adapter/gdmmodel.go:   *)
(*     the gdmModel of the bubbletea program, its Update handler, the      *)
(*     poll of GDM and the commands that talk to GDM;                      *)
(*   - the users manager, internal/users/manager.go: the store operations, *)
(*     the corruption marker, the cleanup goroutine and Stop.              *)
(*                                                                         *)
(* The two parts share no state.  SpecGdmAuth and SpecGdmSession run the   *)
(* first and leave the second alone, SpecMgr and FairSpecMgr run the       *)
(* second.                                                                 *)
(***************************************************************************)
EXTENDS Naturals, Integers, Sequences, FiniteSets, Bags, TLC

VARIABLES
    \* ---- gdmModel (gdmmodel.go:22-36) and the bubbletea program around it
    inputs,               \* what GDM and the parent model may send in this run
    started,              \* Init() has run
    waitingAuth,          \* gdmModel.waitingAuth
    conversationsStopped, \* gdmModel.conversationsStopped
    msgs,                 \* bag of tea.Msg produced by commands, not yet given to Update
    cmds,                 \* bag of returned commands that talk to GDM when they run
    polls,                \* number of polls sent to GDM
    injected,             \* number of messages the parent model has sent
    brokerPending,        \* IsAuthenticated calls the broker has not answered
    results,              \* number of broker results received so far
    pamUser,              \* the PAM user of the session ("" when unset)
    pamErrors,            \* the PAM statuses the program has been told to return
    \* ---- observation of the conversation with GDM
    nStart,               \* StartAuthentication events emitted
    nClose,               \* times waitingAuth went back to FALSE
    nForwarded,           \* isAuthenticatedRequested messages forwarded
    cancelSinceStart,     \* AuthEvent(cancelled) emitted since the last StartAuthentication
    authEvents,           \* bag of AuthEvent responses emitted
    handled,              \* broker results Update has handled: id -> how
    talkedAfterStop,      \* the kinds of conversation with GDM held after the stop
    userConflicts,        \* handled selections of a user other than the PAM user
    userRejects,          \* authentication errors raised for such a selection
    \* ---- Manager (manager.go:38-45), its cache and the files beside it
    db,                   \* the database file: "ok", "garbled" or "nobucket"
    stored,               \* the users the database holds
    marker,               \* the .corrupted file exists (dirtyFlagPath)
    loop,                 \* where the cleanup goroutine is
    quit,                 \* m.quit is closed
    cleanupStopped,       \* m.cleanupStopped is closed
    stopPc,               \* where Stop is: "idle", "wait", "done"
    quitAt,               \* where the cleanup goroutine was when quit was closed
    cacheClosed,          \* m.cache.Close() was called
    ops,                  \* per caller: where its store operation is
    calls,                \* store operations called so far
    corruptions,          \* times the database file was damaged
    \* ---- observation of the requests
    droppedInClear,       \* a request timed out while the running clear was going
    \* ---- the store in detail: the file, the files beside it, the clock
    storeIn,              \* what the environment of the store may do in this run
    store,                \* the database file: its state and its buckets
    lgroups,              \* the local groups: user name -> local group names
    dirty,                \* the .corrupted file exists
    pendingClear,         \* a request on doClear is not yet served
    clock,                \* the time, and opts.expirationDate of the manager
    phase,                \* "down": no manager; "up": NewManager has returned one
    steps,                \* operations called on the manager so far
    \* ---- observation of the store
    last,                 \* the last operation, what it was given and what it returned
    seen,                 \* what the successful writes lead the reads to expect
    inflight,             \* an UpdateUser between its write and its local-groups update
    \* ---- the other parts
    ids,                  \* GenerateID: the call under way, the hashes, the ids returned
    sel,                  \* startBrokerSession: the environment, the request, the message
    temp,                 \* the temporary group records and the generator behind them
    resel,                \* the emission of reselect-auth-mode events of a session
    cl,                   \* the cleanup loop and its interval timer, with time
    ses,                  \* the client model at its end: the session, the RPCs, the exit
    gp                    \* the polls of GDM alone: the poll due, the last poll, waitingAuth

gdmVars == <<inputs, started, waitingAuth, conversationsStopped, msgs, cmds, polls,
             injected, brokerPending, results, pamUser, pamErrors, nStart,
             nClose, nForwarded, cancelSinceStart, authEvents, handled,
             talkedAfterStop, userConflicts, userRejects>>

mgrVars == <<db, stored, marker, loop, quit, cleanupStopped, stopPc, quitAt,
             cacheClosed, ops, calls, corruptions, droppedInClear>>

storeVars == <<storeIn, store, lgroups, dirty, pendingClear, clock, phase, steps,
               last, seen>>

lateVars == <<cl, ses, gp>>

auxVars == <<inflight, ids, sel, temp, resel, lateVars>>

vars == <<gdmVars, mgrVars, storeVars, auxVars>>

\* The parts a run leaves alone.
Off == [pc |-> "off"]
LateIdle == cl = Off /\ ses = Off /\ gp = Off
AuxIdle == inflight = Off /\ ids = Off /\ sel = Off /\ temp = Off /\ resel = Off /\ LateIdle

-----------------------------------------------------------------------------
(* Bounds of the model.                                                    *)

MaxPolls == 2
MaxBatch == 2
MaxInject == 2
MaxResults == 1
MaxCalls == 2
MaxCorruptions == 1
MaxStoreSteps == 3
MaxClock == 2

-----------------------------------------------------------------------------
(* Values.                                                                 *)

NoUser == ""
Users == {"alice", "root"}
Nil == "nil"

\* brokers.AuthGranted ... brokers.AuthNext, the five verdicts of the switch
\* of Update, and a verdict that is none of them.
AuthGranted == "granted"
AuthDenied == "denied"
AuthCancelled == "cancelled"
AuthRetry == "retry"
AuthNext == "next"
KnownAccess == {AuthGranted, AuthDenied, AuthCancelled, AuthRetry, AuthNext}
UnknownAccess == {"bogus", "unset"}

StageChallenge == "challenge"
StageOther == "authModeSelection"

\* The data of a broker reply: a JSON document with a "message" entry, or
\* bytes that do not decode.
NoData == [wellFormed |-> TRUE, message |-> <<>>]
JsonMessage(s) == [wellFormed |-> TRUE, message |-> s]
Garbled == [wellFormed |-> FALSE, message |-> <<>>]
BrokerText == <<"broker says">>

Msg(t, a, d, i) == [type |-> t, arg |-> a, data |-> d, id |-> i]
PamError(status) == Msg("pamError", status, NoData, 0)


-----------------------------------------------------------------------------
(* The poll of GDM: gdmModel.pollGdm.                                      *)

\* What GDM may answer to a poll: gdm.EventData values.  A Nil argument is
\* an event whose payload is missing.
GdmEvent(t, a) == [type |-> t, arg |-> a]

AllGdmEvents ==
    {GdmEvent("UserSelected", u) : u \in Users}
    \cup {GdmEvent("BrokerSelected", a) : a \in {"broker1", Nil}}
    \cup {GdmEvent("AuthModeSelected", a) : a \in {"mode1", Nil}}
    \cup {GdmEvent("IsAuthenticatedRequested", a) : a \in {"item", Nil}}
    \cup {GdmEvent("ReselectAuthMode", Nil), GdmEvent("IsAuthenticatedCancelled", Nil)}
    \cup {GdmEvent("StageChanged", a) : a \in {StageChallenge, StageOther, Nil}}

\* An early return that hands back the error after the commands collected
\* so far.
PollFailKeeping(st, text) ==
    [st EXCEPT !.commands = Append(@, PamError("ErrSystem")), !.returned = TRUE]

\* pollGdm's early return: only the error goes back, the commands collected
\* so far are dropped.
PollFail(st, text) ==
    [st EXCEPT !.commands = <<PamError("ErrSystem")>>, !.returned = TRUE]

PollAppend(st, m) == [st EXCEPT !.commands = Append(@, m)]

\* One iteration of the loop over gdmPollResults (gdmmodel.go:100-162).
PollCase(st, ev) ==
    IF st.returned THEN st
    ELSE CASE ev.type = "UserSelected" ->
                PollAppend(st, Msg("userSelected", ev.arg, NoData, 0))
           [] ev.type = "BrokerSelected" ->
                IF ev.arg = Nil THEN PollFail(st, "missing broker selected")
                ELSE PollAppend(st, Msg("brokerSelected", ev.arg, NoData, 0))
           [] ev.type = "AuthModeSelected" ->
                IF ev.arg = Nil THEN PollFail(st, "missing auth mode id")
                ELSE PollAppend(st, Msg("authModeSelected", ev.arg, NoData, 0))
           [] ev.type = "IsAuthenticatedRequested" ->
                IF ~st.waitingAuth THEN st
                ELSE LET w == [st EXCEPT !.waitingAuth = FALSE]
                     IN IF ev.arg = Nil THEN PollFail(w, "missing auth requested")
                        ELSE PollAppend(w, Msg("isAuthenticatedRequested", ev.arg, NoData, 0))
           [] ev.type = "ReselectAuthMode" ->
                PollAppend(st, Msg("reselectAuthMode", Nil, NoData, 0))
           [] ev.type = "IsAuthenticatedCancelled" ->
                IF st.waitingAuth
                THEN PollAppend(st, Msg("isAuthenticatedCancelled", Nil, NoData, 0))
                ELSE st
           [] ev.type = "StageChanged" ->
                IF ev.arg = Nil THEN PollFail(st, "missing stage changed")
                ELSE LET c == IF st.waitingAuth /\ ev.arg # StageChallenge
                              THEN PollAppend(st, Msg("isAuthenticatedCancelled", Nil, NoData, 0))
                              ELSE st
                     IN PollAppend(c, Msg("ChangeStage", ev.arg, NoData, 0))
           [] OTHER -> st

RECURSIVE PollLoop(_, _)
PollLoop(st, batch) ==
    IF batch = <<>> THEN st
    ELSE PollLoop(PollCase(st, Head(batch)), Tail(batch))

\* gdmModel.pollGdm on a model whose waitingAuth is w: pollOk is whether
\* gdm.SendPoll succeeded, batch what GDM answered.  The result holds the
\* new waitingAuth and the messages of the returned commands.
pollGdm(w, pollOk, batch) ==
    IF ~pollOk
    THEN [waitingAuth |-> w, commands |-> <<PamError("ErrSystem")>>, returned |-> TRUE]
    ELSE PollLoop([waitingAuth |-> w,
                   commands |-> <<Msg("gdmPollDone", Nil, NoData, 0)>>,
                   returned |-> FALSE], batch)

RECURSIVE SeqToBag(_)
SeqToBag(s) == IF s = <<>> THEN EmptyBag ELSE SetToBag({Head(s)}) (+) SeqToBag(Tail(s))

CountType(s, t) == Cardinality({i \in 1..Len(s) : s[i].type = t})


-----------------------------------------------------------------------------
(* gdmModel.Update, one operator per case of its switch.                   *)

\* dataToMsg, as Update uses it (gdmmodel.go:237-240): the "message" entry
\* of the JSON data, or an error when the data does not decode.
dataToMsg(d) == [err |-> ~d.wellFormed, msg |-> d.message]

\* The diagnostic of the default case: {"message": "Access %q is not valid"}.
InvalidAccessData(access) == JsonMessage(<<"Access", access, "is not valid">>)

\* A start that does not look at waitingAuth.
UpdateStartAuthenticationUnguarded(w) == [waitingAuth |-> TRUE, emit |-> TRUE]

\* case startAuthentication (gdmmodel.go:225-233).
UpdateStartAuthentication(w) ==
    IF w THEN [waitingAuth |-> w, emit |-> FALSE]
    ELSE [waitingAuth |-> TRUE, emit |-> TRUE]

\* A result handler whose default case emits the denial and also sends it
\* back to the program: the denial is reported twice.
ResultReportedTwice(m) ==
    LET access == m.arg
        authMsg == dataToMsg(m.data)
    IN IF authMsg.err
       THEN [how |-> "error", send |-> <<PamError("ErrSystem")>>, emit |-> <<>>]
       ELSE IF access = AuthCancelled
       THEN [how |-> "cancel",
             send |-> <<Msg("isAuthenticatedCancelled", Nil, NoData, m.id)>>,
             emit |-> <<>>]
       ELSE IF access \in {AuthGranted, AuthDenied, AuthRetry, AuthNext}
       THEN [how |-> "emitted", send |-> <<>>,
             emit |-> <<[id |-> m.id, access |-> access, msg |-> authMsg.msg]>>]
       ELSE [how |-> "remapped",
             send |-> <<Msg("isAuthenticatedResultReceived", AuthDenied,
                            InvalidAccessData(access), m.id)>>,
             emit |-> <<[id |-> m.id, access |-> AuthDenied,
                         msg |-> InvalidAccessData(access).message]>>]

\* A result handler with no default case: any verdict goes to GDM as it is.
ResultForwardedAsIs(m) ==
    LET access == m.arg
        authMsg == dataToMsg(m.data)
    IN IF authMsg.err
       THEN [how |-> "error", send |-> <<PamError("ErrSystem")>>, emit |-> <<>>]
       ELSE IF access = AuthCancelled
       THEN [how |-> "cancel",
             send |-> <<Msg("isAuthenticatedCancelled", Nil, NoData, m.id)>>,
             emit |-> <<>>]
       ELSE [how |-> "emitted", send |-> <<>>,
             emit |-> <<[id |-> m.id, access |-> access, msg |-> authMsg.msg]>>]

\* case isAuthenticatedResultReceived (gdmmodel.go:235-262): the messages
\* sent back to the program and the AuthEvent responses emitted to GDM.
UpdateIsAuthenticatedResultReceived(m) ==
    LET access == m.arg
        authMsg == dataToMsg(m.data)
    IN IF authMsg.err
       THEN [how |-> "error", send |-> <<PamError("ErrSystem")>>, emit |-> <<>>]
       ELSE IF access = AuthCancelled
       THEN [how |-> "cancel",
             send |-> <<Msg("isAuthenticatedCancelled", Nil, NoData, m.id)>>,
             emit |-> <<>>]
       ELSE IF access \in {AuthGranted, AuthDenied, AuthRetry, AuthNext}
       THEN [how |-> "emitted", send |-> <<>>,
             emit |-> <<[id |-> m.id, access |-> access, msg |-> authMsg.msg]>>]
       ELSE [how |-> "remapped",
             send |-> <<Msg("isAuthenticatedResultReceived", AuthDenied,
                            InvalidAccessData(access), m.id)>>,
             emit |-> <<>>]

\* case isAuthenticatedCancelled (gdmmodel.go:264-272).
UpdateIsAuthenticatedCancelled(w, m) ==
    [waitingAuth |-> FALSE,
     emit |-> <<[id |-> m.id, access |-> AuthCancelled, msg |-> <<>>]>>]

\* A selection that replaces the PAM user.
SelectUserReplacing(cur, declared) == [user |-> declared, err |-> FALSE]

\* The selection of the session's user by the parent model: the PAM user is
\* set once, a later selection of another user is an authentication error.
SelectUser(cur, declared) ==
    IF cur = NoUser THEN [user |-> declared, err |-> FALSE]
    ELSE IF declared # cur THEN [user |-> cur, err |-> TRUE]
    ELSE [user |-> cur, err |-> FALSE]

\* The message of emitEventSync / of a command that talked to GDM: nil, or
\* a pamError when GDM failed.
GdmResult(gdmOk) == IF gdmOk THEN EmptyBag ELSE SetToBag({PamError("ErrSystem")})

One(x) == SetToBag({x})

ForwardedTypes == {"brokersListReceived", "brokerSelected", "authModesReceived",
                   "authModeSelected"}
\* The messages Update has no case for.  The parent model acts on an
\* isAuthenticatedRequested (it asks the broker) and on a pamError (the
\* status to return); the others touch nothing of this model and are not
\* kept among the pending messages.
IgnoredTypes == {"isAuthenticatedRequested", "pamError"}
ParentOnlyTypes == {"reselectAuthMode", "ChangeStage", "supportedUILayoutsReceived"}
IsForUpdate(m) == m.type \notin ParentOnlyTypes
ForUpdate(s) == SeqToBag(SelectSeq(s, IsForUpdate))

\* Whether a conversation with GDM succeeds.
GdmOutcomes == {TRUE}

Batches(events) == UNION {[1..n -> events] : n \in 0..MaxBatch}
ResultIds == 1..MaxResults


-----------------------------------------------------------------------------
(* The GDM side as a state machine.                                        *)

GdmInitState(in) ==
    /\ inputs = in
    /\ started = FALSE
    /\ waitingAuth = FALSE
    /\ conversationsStopped = FALSE
    /\ msgs = EmptyBag
    /\ cmds = EmptyBag
    /\ polls = 0
    /\ injected = 0
    /\ brokerPending = 0
    /\ results = 0
    /\ pamUser = NoUser
    /\ pamErrors = {}
    /\ nStart = 0
    /\ nClose = 0
    /\ nForwarded = 0
    /\ cancelSinceStart = 0
    /\ authEvents = EmptyBag
    /\ handled = [i \in ResultIds |-> [access |-> Nil, wellFormed |-> TRUE, state |-> "none"]]
    /\ talkedAfterStop = {}
    /\ userConflicts = 0
    /\ userRejects = 0

userVars == <<pamUser, pamErrors, userConflicts, userRejects>>
authObs == <<nStart, nClose, nForwarded, cancelSinceStart, authEvents, handled>>
envVars == <<injected, brokerPending, results>>

\* A poll in a model whose waitingAuth is w: the effect of pollGdm on the
\* model, on the pending messages (less the handled one) and on the counts.
DoPoll(rest, pollOk, batch) ==
    LET r == pollGdm(waitingAuth, pollOk, batch)
    IN /\ waitingAuth' = r.waitingAuth
       /\ msgs' = rest (+) ForUpdate(r.commands)
       /\ polls' = polls + 1
       /\ nClose' = IF waitingAuth /\ ~r.waitingAuth THEN nClose + 1 ELSE nClose
       /\ nForwarded' = nForwarded + CountType(r.commands, "isAuthenticatedRequested")

\* gdmModel.Init (gdmmodel.go:41-45): the hello, the command asking for the
\* UI capabilities, and the first poll, which is sent at once.
GdmInit ==
    /\ ~started
    /\ started' = TRUE
    /\ \E helloOk \in GdmOutcomes, pollOk \in GdmOutcomes, batch \in Batches(inputs.events) :
          /\ DoPoll(IF helloOk THEN EmptyBag ELSE One(PamError("ErrCredUnavail")),
                    pollOk, batch)
    /\ cmds' = cmds (+) One([kind |-> "uiCapabilities"])
    /\ UNCHANGED <<mgrVars, storeVars, auxVars, inputs, conversationsStopped, envVars, userVars, nStart,
                   cancelSinceStart, authEvents, handled, talkedAfterStop>>

\* Update once the conversations are stopped (gdmmodel.go:185-187).
UpdateStopped ==
    /\ conversationsStopped
    /\ \E m \in BagToSet(msgs) :
          /\ msgs' = msgs (-) One(m)
          /\ handled' = IF m.type = "isAuthenticatedResultReceived"
                        THEN [handled EXCEPT ![m.id].state = "dropped"]
                        ELSE handled
    /\ UNCHANGED <<mgrVars, storeVars, auxVars, inputs, started, waitingAuth, conversationsStopped, cmds, polls,
                   envVars, userVars, nStart, nClose, nForwarded,
                   cancelSinceStart, authEvents, talkedAfterStop>>

\* case gdmPollDone (gdmmodel.go:190-193): pollGdm is called while the
\* returned command is built, so the poll is sent by Update itself.
UpdateGdmPollDone ==
    /\ ~conversationsStopped
    /\ polls < MaxPolls
    /\ \E m \in BagToSet(msgs), pollOk \in GdmOutcomes, batch \in Batches(inputs.events) :
          /\ m.type = "gdmPollDone"
          /\ DoPoll(msgs (-) One(m), pollOk, batch)
    /\ UNCHANGED <<mgrVars, storeVars, auxVars, inputs, started, conversationsStopped, cmds, envVars, userVars,
                   nStart, cancelSinceStart, authEvents, handled, talkedAfterStop>>

\* case userSelected (gdmmodel.go:195-198), and the parent model's selection
\* of the user for the same message.
UpdateUserSelected ==
    /\ ~conversationsStopped
    /\ \E m \in BagToSet(msgs) :
          /\ m.type = "userSelected"
          /\ msgs' = msgs (-) One(m)
          /\ cmds' = cmds (+) One([kind |-> "emitEvent"])
          /\ LET r == SelectUser(pamUser, m.arg)
             IN /\ pamUser' = r.user
                /\ pamErrors' = IF r.err THEN pamErrors \cup {"ErrAuth"} ELSE pamErrors
                /\ userRejects' = IF r.err THEN userRejects + 1 ELSE userRejects
          /\ userConflicts' = IF pamUser # NoUser /\ m.arg # pamUser
                              THEN userConflicts + 1 ELSE userConflicts
    /\ UNCHANGED <<mgrVars, storeVars, auxVars, inputs, started, waitingAuth, conversationsStopped, polls, envVars,
                   authObs, talkedAfterStop>>

\* cases brokersListReceived, brokerSelected, authModesReceived and
\* authModeSelected (gdmmodel.go:200-218): a command that emits the event.
UpdateForward ==
    /\ ~conversationsStopped
    /\ \E m \in BagToSet(msgs) :
          /\ m.type \in ForwardedTypes
          /\ msgs' = msgs (-) One(m)
          /\ cmds' = cmds (+) One([kind |-> "emitEvent"])
    /\ UNCHANGED <<mgrVars, storeVars, auxVars, inputs, started, waitingAuth, conversationsStopped, polls, envVars,
                   userVars, authObs, talkedAfterStop>>

\* case UILayoutReceived (gdmmodel.go:220-223): the event is emitted by
\* Update itself.
UpdateUILayoutReceived ==
    /\ ~conversationsStopped
    /\ \E m \in BagToSet(msgs), gdmOk \in GdmOutcomes :
          /\ m.type = "UILayoutReceived"
          /\ msgs' = (msgs (-) One(m)) (+) GdmResult(gdmOk)
    /\ UNCHANGED <<mgrVars, storeVars, auxVars, inputs, started, waitingAuth, conversationsStopped, cmds, polls,
                   envVars, userVars, authObs, talkedAfterStop>>

\* case startAuthentication.
OnStartAuthentication ==
    /\ ~conversationsStopped
    /\ \E m \in BagToSet(msgs), gdmOk \in GdmOutcomes :
          /\ m.type = "startAuthentication"
          /\ LET r == UpdateStartAuthentication(waitingAuth)
             IN /\ waitingAuth' = r.waitingAuth
                /\ nStart' = IF r.emit THEN nStart + 1 ELSE nStart
                /\ cancelSinceStart' = IF r.emit THEN 0 ELSE cancelSinceStart
                /\ msgs' = (msgs (-) One(m))
                             (+) (IF r.emit THEN GdmResult(gdmOk) ELSE EmptyBag)
    /\ UNCHANGED <<mgrVars, storeVars, auxVars, inputs, started, conversationsStopped, cmds, polls, envVars,
                   userVars, nClose, nForwarded, authEvents, handled,
                   talkedAfterStop>>

\* case isAuthenticatedResultReceived.
OnIsAuthenticatedResultReceived ==
    /\ ~conversationsStopped
    /\ \E m \in BagToSet(msgs), gdmOk \in GdmOutcomes :
          /\ m.type = "isAuthenticatedResultReceived"
          /\ LET r == UpdateIsAuthenticatedResultReceived(m)
             IN /\ msgs' = (msgs (-) One(m)) (+) SeqToBag(r.send)
                             (+) (IF r.emit # <<>> THEN GdmResult(gdmOk) ELSE EmptyBag)
                /\ authEvents' = authEvents (+) SeqToBag(r.emit)
                /\ handled' = [handled EXCEPT ![m.id].state = r.how]
    /\ UNCHANGED <<mgrVars, storeVars, auxVars, inputs, started, waitingAuth, conversationsStopped, cmds, polls,
                   envVars, userVars, nStart, nClose, nForwarded,
                   cancelSinceStart, talkedAfterStop>>

\* case isAuthenticatedCancelled.
OnIsAuthenticatedCancelled ==
    /\ ~conversationsStopped
    /\ \E m \in BagToSet(msgs), gdmOk \in GdmOutcomes :
          /\ m.type = "isAuthenticatedCancelled"
          /\ LET r == UpdateIsAuthenticatedCancelled(waitingAuth, m)
             IN /\ waitingAuth' = r.waitingAuth
                /\ nClose' = IF waitingAuth /\ ~r.waitingAuth THEN nClose + 1 ELSE nClose
                /\ authEvents' = authEvents (+) SeqToBag(r.emit)
                /\ cancelSinceStart' = cancelSinceStart + Len(r.emit)
                /\ msgs' = (msgs (-) One(m))
                             (+) (IF r.emit # <<>> THEN GdmResult(gdmOk) ELSE EmptyBag)
    /\ UNCHANGED <<mgrVars, storeVars, auxVars, inputs, started, conversationsStopped, cmds, polls, envVars,
                   userVars, nStart, nForwarded, handled, talkedAfterStop>>

\* The messages Update has no case for (gdmmodel.go:275).  The parent model
\* handles them: an isAuthenticatedRequested makes it ask the broker, a
\* pamError is the status the program returns.
UpdateIgnored ==
    /\ ~conversationsStopped
    /\ \E m \in BagToSet(msgs) :
          /\ m.type \in IgnoredTypes
          /\ msgs' = msgs (-) One(m)
          /\ brokerPending' = IF m.type = "isAuthenticatedRequested"
                              THEN brokerPending + 1 ELSE brokerPending
          /\ pamErrors' = IF m.type = "pamError" THEN pamErrors \cup {m.arg}
                          ELSE pamErrors
    /\ UNCHANGED <<mgrVars, storeVars, auxVars, inputs, started, waitingAuth, conversationsStopped, cmds, polls,
                   injected, results, pamUser, userConflicts, userRejects,
                   authObs, talkedAfterStop>>

\* A returned command runs: the closure of emitEvent (gdmmodel.go:166-170),
\* of changeStage (283-295) or of requestUICapabilities (72-85).  None of
\* them looks at conversationsStopped.
RunCmd ==
    \E c \in BagToSet(cmds), gdmOk \in GdmOutcomes :
       /\ cmds' = cmds (-) One(c)
       /\ talkedAfterStop' = IF conversationsStopped THEN talkedAfterStop \cup {c.kind}
                             ELSE talkedAfterStop
       /\ msgs' = msgs (+) (IF ~gdmOk THEN One(PamError("ErrSystem"))
                            ELSE IF c.kind = "uiCapabilities"
                            THEN ForUpdate(<<Msg("supportedUILayoutsReceived", Nil, NoData, 0)>>)
                            ELSE EmptyBag)
       /\ UNCHANGED <<mgrVars, storeVars, auxVars, inputs, started, waitingAuth, conversationsStopped, polls,
                      envVars, userVars, authObs>>

\* gdmModel.changeStage (gdmmodel.go:278-296), called by the parent model.
ChangeStageCall ==
    /\ started
    /\ injected < MaxInject
    /\ injected' = injected + 1
    /\ cmds' = IF conversationsStopped THEN cmds
               ELSE cmds (+) One([kind |-> "changeStage"])
    /\ UNCHANGED <<mgrVars, storeVars, auxVars, inputs, started, waitingAuth, conversationsStopped, msgs, polls,
                   brokerPending, results, userVars, authObs, talkedAfterStop>>

\* gdmModel.stopConversations (gdmmodel.go:298-320): no conversation is in
\* progress between two steps, so the wait ends and the flag is set.
StopConversations ==
    /\ started
    /\ ~conversationsStopped
    /\ conversationsStopped' = TRUE
    /\ UNCHANGED <<mgrVars, storeVars, auxVars, inputs, started, waitingAuth, msgs, cmds, polls, envVars, userVars,
                   authObs, talkedAfterStop>>

\* The parent model sends one of its messages.
Inject ==
    /\ started
    /\ injected < MaxInject
    /\ injected' = injected + 1
    /\ \E m \in inputs.injects : msgs' = msgs (+) One(m)
    /\ UNCHANGED <<mgrVars, storeVars, auxVars, inputs, started, waitingAuth, conversationsStopped, cmds, polls,
                   brokerPending, results, userVars, authObs, talkedAfterStop>>

\* The broker answers an IsAuthenticated call.
BrokerReply ==
    /\ brokerPending > 0
    /\ results < MaxResults
    /\ brokerPending' = brokerPending - 1
    /\ results' = results + 1
    /\ \E access \in KnownAccess \cup UnknownAccess,
          data \in {JsonMessage(BrokerText), Garbled} :
          /\ msgs' = msgs (+) One(Msg("isAuthenticatedResultReceived", access,
                                      data, results + 1))
          /\ handled' = [handled EXCEPT ![results + 1] =
                            [access |-> access, wellFormed |-> data.wellFormed,
                             state |-> "sent"]]
    /\ UNCHANGED <<mgrVars, storeVars, auxVars, inputs, started, waitingAuth, conversationsStopped, cmds, polls,
                   injected, userVars, nStart, nClose, nForwarded,
                   cancelSinceStart, authEvents, talkedAfterStop>>

-----------------------------------------------------------------------------
(* The users manager: errors, the cache calls and the store operations.    *)

\* An error is the set of the errors it wraps: nil is the empty set,
\* errors.Join is the union and errors.Is is membership.
ErrNeedsClearing == "ErrNeedsClearing"
NoDataFoundError == "NoDataFoundError"
ErrNoDataFound == "ErrNoDataFound"
NoErr == {}
Is(err, target) == target \in err
Join(e1, e2) == e1 \cup e2

Callers == {"c1", "c2"}
StoreKeys == {"alice", "nobody"}
ClearSteps == {"clearDb", "clearMarker", "clearGroups"}

\* getBucket and getFromBucket as getUser and AllUsers use them: the bucket
\* is missing, the key is absent, or the value does not unmarshal.
getBucket(d) == IF d = "nobucket" THEN {"bucket not found"} ELSE NoErr
getFromBucket(d, st, key, hits) ==
    IF key \notin st THEN {NoDataFoundError}
    ELSE IF d = "garbled" /\ hits THEN {"unmarshal"}
    ELSE NoErr

\* getUser (return.go:121-146).
getUser(d, st, key, hits) ==
    IF getBucket(d) # NoErr THEN Join({ErrNeedsClearing}, getBucket(d))
    ELSE LET err == getFromBucket(d, st, key, hits)
         IN IF err # NoErr /\ ~Is(err, NoDataFoundError)
            THEN Join({ErrNeedsClearing}, err)
            ELSE err

\* Cache.AllUsers (return.go:93-117).
CacheAllUsers(d, st, hits) ==
    LET err == IF getBucket(d) # NoErr THEN getBucket(d)
               ELSE IF d = "garbled" /\ hits /\ st # {} THEN {"unmarshal"}
               ELSE NoErr
    IN IF err # NoErr THEN Join({ErrNeedsClearing}, err) ELSE NoErr

\* The cache calls on groups and brokers and the cache writes: what they may
\* return on a database in state d.
CacheCallErrs(d) ==
    {NoErr, {NoDataFoundError}, {"other"}}
        \cup (IF d # "ok" THEN {{ErrNeedsClearing, "corrupted"}} ELSE {})

\* Where a caller goes from shouldClearDb: "mark" is into
\* requestClearDatabase, "ret" is on to the return of the error.
shouldClearDbNoRequest(err) == "ret"

\* Manager.shouldClearDb (manager.go:276-281).
shouldClearDb(err) == IF Is(err, ErrNeedsClearing) THEN "mark" ELSE "ret"

OpResult(err, next, st) == [err |-> err, next |-> next, stored |-> st]

\* if err != nil { return ..., m.shouldClearDb(err) }
ReturnErr(err, st) ==
    OpResult(err, IF err # NoErr THEN shouldClearDb(err) ELSE "ret", st)

\* Manager.UserByName, UserByID, ShadowByName (manager.go:189-204, 253-259).
UserByName(d, st, key, hits) == ReturnErr(getUser(d, st, key, hits), st)
UserByID(d, st, key, hits) == ReturnErr(getUser(d, st, key, hits), st)
ShadowByName(d, st, key, hits) == ReturnErr(getUser(d, st, key, hits), st)

\* Manager.AllUsers, AllShadows (manager.go:207-218, 262-273).
AllUsers(d, st, hits) == ReturnErr(CacheAllUsers(d, st, hits), st)
AllShadows(d, st, hits) == ReturnErr(CacheAllUsers(d, st, hits), st)

\* Manager.GroupByName, GroupByID, AllGroups (manager.go:221-250).
GroupByName(err, st) == ReturnErr(err, st)
GroupByID(err, st) == ReturnErr(err, st)
AllGroups(err, st) == ReturnErr(err, st)

\* Manager.BrokerForUser (manager.go:167-177).
BrokerForUser(err, st) ==
    IF err # NoErr /\ Is(err, NoDataFoundError)
    THEN OpResult({ErrNoDataFound}, "ret", st)
    ELSE ReturnErr(err, st)

\* Manager.UpdateBrokerForUser (manager.go:180-186).
UpdateBrokerForUser(err, st) == ReturnErr(err, st)

\* Manager.UpdateUser (manager.go:124-164): the checks of the user, the
\* write of the entry, the update of the local groups and, when that fails,
\* the removal of the user.
UpdateUser(valid, entryErr, groupsOk, deleteErr, st) ==
    IF ~valid THEN OpResult({"invalid user"}, "ret", st)
    ELSE IF entryErr # NoErr THEN OpResult(entryErr, shouldClearDb(entryErr), st)
    ELSE IF ~groupsOk
         THEN OpResult(Join({"local groups"}, deleteErr), shouldClearDb(deleteErr),
                       IF deleteErr = NoErr THEN st \ {"alice"} ELSE st \cup {"alice"})
    ELSE OpResult(NoErr, "ret", st \cup {"alice"})

\* All a store operation called on database d holding st may do.
OpOutcomes(d, st) ==
    LET errs == CacheCallErrs(d)
        scanErrs == errs \ {{NoDataFoundError}}
    IN UNION {
         {UserByName(d, st, k, h) : k \in StoreKeys, h \in BOOLEAN},
         {UserByID(d, st, k, h) : k \in StoreKeys, h \in BOOLEAN},
         {ShadowByName(d, st, k, h) : k \in StoreKeys, h \in BOOLEAN},
         {AllUsers(d, st, h) : h \in BOOLEAN},
         {AllShadows(d, st, h) : h \in BOOLEAN},
         {GroupByName(e, st) : e \in errs},
         {GroupByID(e, st) : e \in errs},
         {AllGroups(e, st) : e \in scanErrs},
         {BrokerForUser(e, st) : e \in errs},
         {UpdateBrokerForUser(e, st) : e \in scanErrs},
         {UpdateUser(v, e1, g, e2, st) :
             v \in BOOLEAN, e1 \in scanErrs, g \in BOOLEAN, e2 \in errs} }

\* Manager.markCorrupted (manager.go:333-338): the file exists afterwards.
markCorrupted(mk) == IF mk THEN mk ELSE TRUE

\* Manager.Stop (manager.go:119): <-m.cleanupStopped.
StopClosesAtOnce(stopped) == TRUE
WaitCleanupStopped(stopped) == stopped

\* Manager.cleanExpiredUserData (manager.go:357-375): the users left once
\* the expired ones, whichever they are, are removed.
cleanExpiredUserData(st) == SUBSET st

IdleOp == [pc |-> "idle", err |-> NoErr, marked |-> FALSE, requested |-> "none"]

-----------------------------------------------------------------------------
(* The store in detail: the records, the buckets of the cache and the      *)
(* cache calls on them.                                                    *)

Names == {"alice", "bob"}
UIDs == {1, 2}
UIDOrder == <<1, 2>>
GIDs == {10, 20}
BrokerIds == {"broker1", "broker2"}
LocalGroupNames == {"localgrp"}

NoRec == [kind |-> "none"]
GarbledRec == [kind |-> "garbled"]

\* cache.NewUserDB as UpdateUser calls it (manager.go:153): the record of
\* the user, with the time of the login.
NewUserDB(name, uid, gid, gecos, dir, shell, at) ==
    [kind |-> "user", name |-> name, uid |-> uid, gid |-> gid, gecos |-> gecos,
     dir |-> dir, shell |-> shell, lastLogin |-> at]

\* cache.NewGroupDB (manager.go:149).
NewGroupDB(name, gid) == [name |-> name, gid |-> gid]

\* UserPasswdShadow (return.go:60-75) of a record, and the zero value that
\* goes with an error.
ZeroUser == [name |-> "", uid |-> 0, gid |-> 0, gecos |-> "", dir |-> "", shell |-> ""]
toUserPasswdShadow(rec) ==
    IF rec.kind = "user"
    THEN [name |-> rec.name, uid |-> rec.uid, gid |-> rec.gid, gecos |-> rec.gecos,
          dir |-> rec.dir, shell |-> rec.shell]
    ELSE ZeroUser

\* userEntryFromUserDB (manager.go:194, 203): the entry given to the caller.
userEntryFromUserDB(usr) ==
    [Name |-> usr.name, UID |-> usr.uid, GID |-> usr.gid, Gecos |-> usr.gecos,
     Dir |-> usr.dir, Shell |-> usr.shell]

\* The database file with its buckets.
EmptyStore ==
    [file |-> "ok",
     byID |-> [u \in UIDs |-> NoRec],
     byName |-> [n \in Names |-> NoRec],
     groups |-> {},
     brokers |-> [n \in Names |-> Nil]]

\* getFromBucket on the bytes stored under a key.
getFromBucketRec(rec) ==
    IF rec = NoRec THEN {NoDataFoundError}
    ELSE IF rec = GarbledRec THEN {"unmarshal"}
    ELSE NoErr

\* A getUser that takes every error of getFromBucket for corruption.
getUserEveryErrorClears(s, b, key) ==
    IF getBucket(s.file) # NoErr
    THEN [u |-> NoRec, err |-> Join({ErrNeedsClearing}, getBucket(s.file))]
    ELSE LET err == getFromBucketRec(s[b][key])
         IN IF err # NoErr
            THEN [u |-> NoRec, err |-> Join({ErrNeedsClearing}, err)]
            ELSE [u |-> s[b][key], err |-> NoErr]

\* getUser (return.go:121-146) on bucket b ("byID" or "byName") and key.
getUserEntry(s, b, key) ==
    IF getBucket(s.file) # NoErr
    THEN [u |-> NoRec, err |-> Join({ErrNeedsClearing}, getBucket(s.file))]
    ELSE LET err == getFromBucketRec(s[b][key])
         IN IF err # NoErr
            THEN [u |-> NoRec,
                  err |-> IF ~Is(err, NoDataFoundError)
                          THEN Join({ErrNeedsClearing}, err) ELSE err]
            ELSE [u |-> s[b][key], err |-> NoErr]

\* Cache.UserByID and Cache.UserByName (return.go:79-89).
CacheUserByID(s, uid) ==
    LET r == getUserEntry(s, "byID", uid)
    IN [u |-> toUserPasswdShadow(r.u), err |-> r.err]
CacheUserByName(s, name) ==
    LET r == getUserEntry(s, "byName", name)
    IN [u |-> toUserPasswdShadow(r.u), err |-> r.err]

\* bucket.ForEach of Cache.AllUsers (return.go:102-109): the entries in key
\* order, stopping at the first that does not unmarshal.
RECURSIVE AllUsersForEach(_, _, _)
AllUsersForEach(s, keys, acc) ==
    IF keys = <<>> THEN acc
    ELSE LET rec == s.byID[Head(keys)]
         IN IF rec = NoRec THEN AllUsersForEach(s, Tail(keys), acc)
            ELSE IF rec = GarbledRec THEN [acc EXCEPT !.err = {"unmarshal"}]
            ELSE AllUsersForEach(s, Tail(keys),
                    [acc EXCEPT !.all = Append(@, toUserPasswdShadow(rec))])

\* A Cache.AllUsers that gives back what it had read before the error.
AllUsersKeepingPartial(s) ==
    LET r == AllUsersForEach(s, UIDOrder, [all |-> <<>>, err |-> NoErr])
    IN IF r.err # NoErr THEN [r EXCEPT !.err = Join({ErrNeedsClearing}, @)] ELSE r

\* Cache.AllUsers (return.go:93-117).
CacheAllUsersOf(s) ==
    LET r == IF getBucket(s.file) # NoErr
             THEN [all |-> <<>>, err |-> getBucket(s.file)]
             ELSE AllUsersForEach(s, UIDOrder, [all |-> <<>>, err |-> NoErr])
    IN IF r.err # NoErr
       THEN [all |-> <<>>, err |-> Join({ErrNeedsClearing}, r.err)]
       ELSE [all |-> r.all, err |-> NoErr]

\* A write of the id-keyed entry alone.
UpdateUserEntryByIDOnly(s, userDB, groupContents) ==
    [s |-> [s EXCEPT !.byID[userDB.uid] = userDB], err |-> NoErr]

\* The cache calls whose code is elsewhere, after the contract of the store.
\* UpdateUserEntry writes the id-keyed and the name-keyed entry of the user
\* and the groups; nothing is written when a bucket is missing.
CacheUpdateUserEntry(s, userDB, groupContents) ==
    IF getBucket(s.file) # NoErr
    THEN [s |-> s, err |-> Join({ErrNeedsClearing}, getBucket(s.file))]
    ELSE [s |-> [s EXCEPT !.byID[userDB.uid] = userDB,
                          !.byName[userDB.name] = userDB,
                          !.groups = @ \cup groupContents],
          err |-> NoErr]

\* DeleteUser removes the user of that uid from both keyings and its
\* binding; a missing entry is not an error.
CacheDeleteUser(s, uid) ==
    IF getBucket(s.file) # NoErr
    THEN [s |-> s, err |-> Join({ErrNeedsClearing}, getBucket(s.file))]
    ELSE IF s.byID[uid].kind # "user" THEN [s |-> s, err |-> NoErr]
    ELSE [s |-> [s EXCEPT !.byID[uid] = NoRec,
                          !.byName[s.byID[uid].name] = NoRec,
                          !.brokers[s.byID[uid].name] = Nil],
          err |-> NoErr]

\* CleanExpiredUsers removes every user whose last login is before the
\* cutoff and whose uid is not active, and returns the removed names.
Expired(s, activeUIDs, cutoff) ==
    {u \in UIDs : /\ s.byID[u].kind = "user"
                  /\ s.byID[u].lastLogin < cutoff
                  /\ u \notin activeUIDs}

RECURSIVE DeleteAll(_, _)
DeleteAll(s, uids) ==
    IF uids = {} THEN s
    ELSE LET u == CHOOSE x \in uids : TRUE
         IN DeleteAll(CacheDeleteUser(s, u).s, uids \ {u})

CacheCleanExpiredUsers(s, activeUIDs, cutoff) ==
    IF getBucket(s.file) # NoErr \/ \E u \in UIDs : s.byID[u] = GarbledRec
    THEN [s |-> s, cleaned |-> {}, err |-> {"clean failed"}]
    ELSE [s |-> DeleteAll(s, Expired(s, activeUIDs, cutoff)),
          cleaned |-> {s.byID[u].name : u \in Expired(s, activeUIDs, cutoff)},
          err |-> NoErr]

\* Clear destroys the file and creates it again.
CacheClear(s) == EmptyStore

\* The binding of a user to a broker.
CacheBrokerForUser(s, name) ==
    IF getBucket(s.file) # NoErr
    THEN [id |-> Nil, err |-> Join({ErrNeedsClearing}, getBucket(s.file))]
    ELSE IF s.brokers[name] = Nil THEN [id |-> Nil, err |-> {NoDataFoundError}]
    ELSE [id |-> s.brokers[name], err |-> NoErr]

CacheUpdateBrokerForUser(s, name, brokerID) ==
    IF getBucket(s.file) # NoErr
    THEN [s |-> s, err |-> Join({ErrNeedsClearing}, getBucket(s.file))]
    ELSE [s |-> [s EXCEPT !.brokers[name] = brokerID], err |-> NoErr]

\* The group of a name or of a gid.
CacheGroupBy(s, field, key) ==
    IF getBucket(s.file) # NoErr
    THEN [g |-> {}, err |-> Join({ErrNeedsClearing}, getBucket(s.file))]
    ELSE IF \E g \in s.groups : g[field] = key
    THEN [g |-> {g \in s.groups : g[field] = key}, err |-> NoErr]
    ELSE [g |-> {}, err |-> {NoDataFoundError}]

-----------------------------------------------------------------------------
(* The operations of the manager on the store in detail.                   *)

\* A group of a UserInfo without GID (a nil *int).
NoGID == 0
ExpiryWindow == 1

GroupInfo(name, gid) == [Name |-> name, GID |-> gid]
UserInfo(name, uid, gecos, groups) ==
    [Name |-> name, UID |-> uid, Gecos |-> gecos, Dir |-> <<"/home", name>>,
     Shell |-> "/bin/sh", Groups |-> groups]

\* The loop of UpdateUser over u.Groups (manager.go:137-150).
RECURSIVE SplitGroups(_, _, _)
SplitGroups(u, groups, acc) ==
    IF groups = <<>> \/ acc.err # NoErr THEN acc
    ELSE LET g == Head(groups)
         IN IF g.Name = "" THEN [acc EXCEPT !.err = {"empty group name"}]
            ELSE IF g.GID = NoGID
            THEN SplitGroups(u, Tail(groups),
                             [acc EXCEPT !.localGroups = Append(@, g.Name)])
            ELSE SplitGroups(u, Tail(groups),
                             [acc EXCEPT !.groupContents = Append(@, NewGroupDB(g.Name, g.GID))])

NoSplit == [groupContents |-> <<>>, localGroups |-> <<>>, err |-> NoErr]

\* Checks that let a default group without GID through.
CheckUserButDefaultGID(u) ==
    IF u.Name = "" THEN {"empty username"}
    ELSE IF Len(u.Groups) = 0 THEN {"no group provided"}
    ELSE NoErr

\* The checks of UpdateUser before its loop (manager.go:127-135).
CheckUser(u) ==
    IF u.Name = "" THEN {"empty username"}
    ELSE IF Len(u.Groups) = 0 THEN {"no group provided"}
    ELSE IF u.Groups[1].GID = NoGID THEN {"no gid provided"}
    ELSE NoErr

\* A split that hands every named group to the store.
SplitAllToStore(u) ==
    IF \E i \in 1..Len(u.Groups) : u.Groups[i].Name = ""
    THEN [NoSplit EXCEPT !.err = {"empty group name"}]
    ELSE [NoSplit EXCEPT !.groupContents =
             [i \in 1..Len(u.Groups) |-> NewGroupDB(u.Groups[i].Name, u.Groups[i].GID)]]

\* The groups of u for the store and for the local groups (manager.go:137-150).
SplitUserGroups(u) == SplitGroups(u, u.Groups, NoSplit)

\* The checks of UpdateUser and the split of the groups (manager.go:127-150).
ValidateUser(u) ==
    IF CheckUser(u) # NoErr THEN [NoSplit EXCEPT !.err = CheckUser(u)]
    ELSE SplitUserGroups(u)

SeqRange(q) == {q[i] : i \in 1..Len(q)}

\* localgroups.Update(name, groups): the user is in these local groups and
\* in no other.
LocalGroupsUpdate(lg, name, groups) == [lg EXCEPT ![name] = SeqRange(groups)]

\* localgroups.CleanUser(name).
LocalGroupsCleanUser(lg, name) == [lg EXCEPT ![name] = {}]

\* localgroups.Clean(): the users the store no longer holds leave the local
\* groups.
LocalGroupsClean(lg, s) ==
    [n \in Names |-> IF s.byName[n].kind = "user" THEN lg[n] ELSE {}]

\* The store and the local groups after an operation, its error, whether it
\* went through requestClearDatabase, and what it handed to the cache
\* (toStore) and to the local groups (toLocal).
Outcome(s, lg, err, next) ==
    [s |-> s, lg |-> lg, err |-> err, clear |-> (next = "mark"), out |-> <<>>,
     toStore |-> <<>>, toLocal |-> <<>>, wrote |-> FALSE, updatedLocal |-> FALSE]

\* An UpdateUser that takes the primary gid from the last group; groupsOk is whether
\* the update of the local groups succeeds.
UpdateUserLastGroupGID(s, lg, u, now, groupsOk) ==
    LET v == ValidateUser(u)
    IN IF v.err # NoErr THEN Outcome(s, lg, v.err, "ret")
       ELSE LET userDB == NewUserDB(u.Name, u.UID, u.Groups[Len(u.Groups)].GID, u.Gecos,
                                    u.Dir, u.Shell, now)
                w == CacheUpdateUserEntry(s, userDB, SeqRange(v.groupContents))
                passed == [Outcome(w.s, lg, w.err, "ret") EXCEPT
                              !.toStore = v.groupContents, !.wrote = TRUE]
            IN IF w.err # NoErr
               THEN [passed EXCEPT !.clear = (shouldClearDb(w.err) = "mark")]
               ELSE IF ~groupsOk
               THEN LET d == CacheDeleteUser(w.s, u.UID)
                    IN [passed EXCEPT !.s = d.s,
                                      !.err = Join({"local groups"}, d.err),
                                      !.clear = (shouldClearDb(d.err) = "mark"),
                                      !.toLocal = v.localGroups,
                                      !.updatedLocal = TRUE]
               ELSE [passed EXCEPT !.lg = LocalGroupsUpdate(lg, u.Name, v.localGroups),
                                   !.toLocal = v.localGroups,
                                   !.updatedLocal = TRUE]

\* Manager.UpdateUser up to the write of the entry (manager.go:124-156),
\* at time now.
UpdateUserWrite(s, lg, u, now) ==
    LET v == ValidateUser(u)
    IN IF v.err # NoErr THEN Outcome(s, lg, v.err, "ret")
       ELSE LET userDB == NewUserDB(u.Name, u.UID, u.Groups[1].GID, u.Gecos,
                                    u.Dir, u.Shell, now)
                w == CacheUpdateUserEntry(s, userDB, SeqRange(v.groupContents))
                passed == [Outcome(w.s, lg, w.err, "ret") EXCEPT
                              !.toStore = v.groupContents, !.wrote = TRUE]
            IN IF w.err # NoErr
               THEN [passed EXCEPT !.clear = (shouldClearDb(w.err) = "mark")]
               ELSE passed

UpdateUserLocalGroupsKeeping(passed, u, groupsOk) ==
    LET v == ValidateUser(u)
    IN IF ~groupsOk
       THEN [passed EXCEPT !.err = {"local groups"},
                           !.toLocal = v.localGroups,
                           !.updatedLocal = TRUE]
       ELSE [passed EXCEPT !.lg = LocalGroupsUpdate(passed.lg, u.Name, v.localGroups),
                           !.toLocal = v.localGroups,
                           !.updatedLocal = TRUE]

\* Manager.UpdateUser after the write passed (manager.go:158-163); groupsOk
\* is whether the update of the local groups succeeds.
UpdateUserLocalGroups(passed, u, groupsOk) ==
    LET v == ValidateUser(u)
    IN IF ~groupsOk
       THEN LET d == CacheDeleteUser(passed.s, u.UID)
            IN [passed EXCEPT !.s = d.s,
                              !.err = Join({"local groups"}, d.err),
                              !.clear = (shouldClearDb(d.err) = "mark"),
                              !.toLocal = v.localGroups,
                              !.updatedLocal = TRUE]
       ELSE [passed EXCEPT !.lg = LocalGroupsUpdate(passed.lg, u.Name, v.localGroups),
                           !.toLocal = v.localGroups,
                           !.updatedLocal = TRUE]

\* Manager.UpdateUser (manager.go:124-164) at time now.
MgrUpdateUser(s, lg, u, now, groupsOk) ==
    LET w == UpdateUserWrite(s, lg, u, now)
    IN IF ~w.wrote \/ w.err # NoErr THEN w
       ELSE UpdateUserLocalGroups(w, u, groupsOk)

\* Manager.UserByName and Manager.UserByID (manager.go:189-204).
MgrUserBy(s, lg, r) ==
    IF r.err # NoErr
    THEN [Outcome(s, lg, r.err, shouldClearDb(r.err)) EXCEPT
             !.out = <<userEntryFromUserDB(ZeroUser)>>]
    ELSE [Outcome(s, lg, NoErr, "ret") EXCEPT !.out = <<userEntryFromUserDB(r.u)>>]
MgrUserByName(s, lg, name) == MgrUserBy(s, lg, CacheUserByName(s, name))
MgrUserByID(s, lg, uid) == MgrUserBy(s, lg, CacheUserByID(s, uid))

RECURSIVE MapEntries(_)
MapEntries(q) ==
    IF q = <<>> THEN <<>> ELSE <<userEntryFromUserDB(Head(q))>> \o MapEntries(Tail(q))

\* Manager.AllUsers (manager.go:207-218) over a Cache.AllUsers result.
MgrAllUsersFrom(s, lg, r) ==
    IF r.err # NoErr THEN Outcome(s, lg, r.err, shouldClearDb(r.err))
    ELSE [Outcome(s, lg, NoErr, "ret") EXCEPT !.out = MapEntries(r.all)]
MgrAllUsers(s, lg) == MgrAllUsersFrom(s, lg, CacheAllUsersOf(s))

\* Manager.GroupByName and Manager.GroupByID (manager.go:221-236).
MgrGroupBy(s, lg, field, key) ==
    LET r == CacheGroupBy(s, field, key)
    IN IF r.err # NoErr THEN Outcome(s, lg, r.err, shouldClearDb(r.err))
       ELSE [Outcome(s, lg, NoErr, "ret") EXCEPT !.out = <<r.g>>]

\* A BrokerForUser that hands on the error of the cache as it is.
BrokerForUserRawError(s, lg, name) ==
    LET r == CacheBrokerForUser(s, name)
    IN IF r.err # NoErr THEN Outcome(s, lg, r.err, shouldClearDb(r.err))
       ELSE [Outcome(s, lg, NoErr, "ret") EXCEPT !.out = <<r.id>>]

\* Manager.BrokerForUser (manager.go:167-177).
MgrBrokerForUser(s, lg, name) ==
    LET r == CacheBrokerForUser(s, name)
    IN IF r.err # NoErr /\ Is(r.err, NoDataFoundError)
       THEN Outcome(s, lg, {ErrNoDataFound}, "ret")
       ELSE IF r.err # NoErr THEN Outcome(s, lg, r.err, shouldClearDb(r.err))
       ELSE [Outcome(s, lg, NoErr, "ret") EXCEPT !.out = <<r.id>>]

\* Manager.UpdateBrokerForUser (manager.go:180-186).
MgrUpdateBrokerForUser(s, lg, name, brokerID) ==
    LET r == CacheUpdateBrokerForUser(s, name, brokerID)
    IN Outcome(r.s, lg, r.err, IF r.err # NoErr THEN shouldClearDb(r.err) ELSE "ret")

\* What /proc may hold: directories of processes (numeric names) and other
\* entries, each with its owner; a process may be gone by the time it is
\* looked at, and the look may fail.
ProcEntry(numeric, uid, state) == [numeric |-> numeric, uid |-> uid, state |-> state]
ProcEntries ==
    {ProcEntry(TRUE, 1, "ok"), ProcEntry(FALSE, 1, "ok"), ProcEntry(TRUE, 1, "gone"),
     ProcEntry(TRUE, 2, "error")}
EmptyProc == [readable |-> TRUE, entries |-> {}]
ProcDirs ==
    {[readable |-> TRUE, entries |-> e] : e \in SUBSET ProcEntries}
        \cup {[readable |-> FALSE, entries |-> {}]}

\* A scan that takes every entry of /proc for a process.
ScanEveryEntry(proc) ==
    [uids |-> {e.uid : e \in proc.entries}, err |-> NoErr]

\* getUIDsOfRunningProcesses (manager.go:378-410).
getUIDsOfRunningProcesses(proc) ==
    IF ~proc.readable THEN [uids |-> {}, err |-> {"read dir"}]
    ELSE IF \E e \in proc.entries : e.numeric /\ e.state = "error"
    THEN [uids |-> {}, err |-> {"stat"}]
    ELSE [uids |-> {e.uid : e \in {x \in proc.entries : x.numeric /\ x.state = "ok"}},
          err |-> NoErr]

RECURSIVE CleanUsers(_, _)
CleanUsers(lg, names) ==
    IF names = {} THEN lg
    ELSE LET n == CHOOSE x \in names : TRUE
         IN CleanUsers(LocalGroupsCleanUser(lg, n), names \ {n})

\* A sweep that goes on with the uids it has when the scan fails.
SweepIgnoringScanError(s, lg, proc, expirationDate) ==
    LET c == CacheCleanExpiredUsers(s, getUIDsOfRunningProcesses(proc).uids,
                                    expirationDate)
    IN [s |-> c.s, lg |-> CleanUsers(lg, c.cleaned), cleaned |-> c.cleaned,
        err |-> c.err]

\* Manager.cleanExpiredUserData (manager.go:357-375) with opts.procDir
\* holding proc and opts.expirationDate as given.
MgrCleanExpiredUserData(s, lg, proc, expirationDate) ==
    LET scan == getUIDsOfRunningProcesses(proc)
    IN IF scan.err # NoErr THEN [s |-> s, lg |-> lg, cleaned |-> {}, err |-> scan.err]
       ELSE LET c == CacheCleanExpiredUsers(s, scan.uids, expirationDate)
            IN IF c.err # NoErr THEN [s |-> s, lg |-> lg, cleaned |-> {}, err |-> c.err]
               ELSE [s |-> c.s, lg |-> CleanUsers(lg, c.cleaned),
                     cleaned |-> c.cleaned, err |-> NoErr]

\* The orders in which the database may hand out the names of names.
Orders(names) ==
    {q \in [1..Cardinality(names) -> names] : {q[i] : i \in DOMAIN q} = names}

\* A loop over the removed users that ends at the first CleanUser to fail.
RECURSIVE cleanLoopStopping(_, _, _, _)
cleanLoopStopping(r, cleanedUsers, fails, i) ==
    IF i > Len(cleanedUsers) \/ r.err # NoErr THEN r
    ELSE LET u == cleanedUsers[i]
         IN cleanLoopStopping([lg |-> IF u \in fails THEN r.lg
                                      ELSE LocalGroupsCleanUser(r.lg, u),
                               called |-> Append(r.called, u),
                               err |-> IF u \in fails THEN {"clean user"} ELSE NoErr],
                              cleanedUsers, fails, i + 1)

\* for _, u := range cleanedUsers (manager.go:368-373): err is assigned by
\* each localgroups.CleanUser, which fails for the users of fails and then
\* leaves the local groups as they are.
RECURSIVE cleanLoop(_, _, _, _)
cleanLoop(r, cleanedUsers, fails, i) ==
    IF i > Len(cleanedUsers) THEN r
    ELSE LET u == cleanedUsers[i]
         IN cleanLoop([lg |-> IF u \in fails THEN r.lg
                              ELSE LocalGroupsCleanUser(r.lg, u),
                       called |-> Append(r.called, u),
                       err |-> IF u \in fails THEN {"clean user"} ELSE NoErr],
                      cleanedUsers, fails, i + 1)

CleanExpiredUserDataStopping(s, lg, proc, expirationDate, order, fails) ==
    LET r == MgrCleanExpiredUserData(s, lg, proc, expirationDate)
        cleanedUsers == SelectSeq(order, LAMBDA n : n \in r.cleaned)
        l == cleanLoopStopping([lg |-> lg, called |-> <<>>, err |-> NoErr],
                               cleanedUsers, fails, 1)
    IN IF r.err # NoErr
       THEN [s |-> r.s, lg |-> r.lg, cleaned |-> r.cleaned, called |-> <<>>, err |-> r.err]
       ELSE [s |-> r.s, lg |-> l.lg, cleaned |-> r.cleaned, called |-> l.called,
             err |-> l.err]

\* Manager.cleanExpiredUserData (manager.go:357-375) with a
\* localgroups.CleanUser that may fail: the database hands out the removed
\* users in the order of order, and the error returned is the one the last
\* CleanUser left in err.
CleanExpiredUserData(s, lg, proc, expirationDate, order, fails) ==
    LET r == MgrCleanExpiredUserData(s, lg, proc, expirationDate)
        cleanedUsers == SelectSeq(order, LAMBDA n : n \in r.cleaned)
        l == cleanLoop([lg |-> lg, called |-> <<>>, err |-> NoErr], cleanedUsers, fails, 1)
    IN IF r.err # NoErr
       THEN [s |-> r.s, lg |-> r.lg, cleaned |-> r.cleaned, called |-> <<>>, err |-> r.err]
       ELSE [s |-> r.s, lg |-> l.lg, cleaned |-> r.cleaned, called |-> l.called,
             err |-> l.err]

\* A clear that removes the marker and leaves the database as it is.
MgrClearMarkerOnly(s, lg, mk, clearOk, cleanOk) ==
    [s |-> s, lg |-> lg, dirty |-> FALSE, err |-> NoErr]

\* Manager.clear (manager.go:341-354): clearOk and cleanOk are whether
\* cache.Clear and localgroups.Clean succeed.
MgrClear(s, lg, mk, clearOk, cleanOk) ==
    IF ~clearOk THEN [s |-> s, lg |-> lg, dirty |-> mk, err |-> {"clear"}]
    ELSE IF ~cleanOk
    THEN [s |-> CacheClear(s), lg |-> lg, dirty |-> FALSE, err |-> {"clean"}]
    ELSE [s |-> CacheClear(s), lg |-> LocalGroupsClean(lg, CacheClear(s)),
          dirty |-> FALSE, err |-> NoErr]

clearMarkerFirst(s, lg, mk, clearOk, removeOk, cleanOk) ==
    LET removed == IF removeOk THEN FALSE ELSE mk
    IN IF ~clearOk THEN [s |-> s, lg |-> lg, dirty |-> removed, err |-> {"clear"}]
       ELSE IF ~cleanOk
       THEN [s |-> CacheClear(s), lg |-> lg, dirty |-> removed, err |-> {"clean"}]
       ELSE [s |-> CacheClear(s), lg |-> LocalGroupsClean(lg, CacheClear(s)),
             dirty |-> removed, err |-> NoErr]

\* Manager.clear (manager.go:341-354) with an os.Remove of the marker that
\* may fail (removeOk): the failure is logged and the marker stays.
clear(s, lg, mk, clearOk, removeOk, cleanOk) ==
    IF ~clearOk THEN [s |-> s, lg |-> lg, dirty |-> mk, err |-> {"clear"}]
    ELSE LET removed == IF removeOk THEN FALSE ELSE mk
         IN IF ~cleanOk
            THEN [s |-> CacheClear(s), lg |-> lg, dirty |-> removed, err |-> {"clean"}]
            ELSE [s |-> CacheClear(s), lg |-> LocalGroupsClean(lg, CacheClear(s)),
                  dirty |-> removed, err |-> NoErr]

-----------------------------------------------------------------------------
(* The manager on the store in detail, one operation at a time.            *)

Healthy(s) == s.file = "ok" /\ \A u \in UIDs : s.byID[u] # GarbledRec
                            /\ \A n \in Names : s.byName[n] # GarbledRec

NoLocalGroups == [n \in Names |-> {}]

\* What the directory of the cache may hold when the daemon starts.
AliceDB == NewUserDB("alice", 1, 10, "Alice", <<"/home", "alice">>, "/bin/sh", 0)
AliceStore ==
    [EmptyStore EXCEPT !.byID[1] = AliceDB, !.byName["alice"] = AliceDB,
                       !.groups = {NewGroupDB("grp", 10)}]
InitDisks ==
    {[s |-> EmptyStore, lg |-> NoLocalGroups],
     [s |-> AliceStore, lg |-> [NoLocalGroups EXCEPT !["alice"] = {"localgrp"}]],
     [s |-> [AliceStore EXCEPT !.byID[2] = GarbledRec],
      lg |-> [NoLocalGroups EXCEPT !["alice"] = {"localgrp"}]],
     [s |-> [AliceStore EXCEPT !.file = "invalid"],
      lg |-> [NoLocalGroups EXCEPT !["alice"] = {"localgrp"}]]}

\* What the run has seen: the users written and the brokers bound that are
\* still due to be read back, whether a write gave a stored name another uid
\* or a stored uid another name (rekeyed), and whether the file was damaged.
NoSeen ==
    [written |-> {}, bound |-> [n \in Names |-> Nil], rekeyed |-> FALSE,
     damaged |-> FALSE]
NoLast == [op |-> "none"]

StoreInitState(in) ==
    /\ storeIn = in
    /\ \E d \in in.disks : store = d.s /\ lgroups = d.lg
    /\ dirty \in in.markers
    /\ pendingClear = FALSE
    /\ \E t \in in.times : clock = [now |-> t, expirationDate |-> 0]
    /\ phase = "down"
    /\ last = NoLast
    /\ seen = NoSeen
    /\ steps = 0

\* The store side left alone.
NoStoreInputs ==
    [disks |-> {[s |-> EmptyStore, lg |-> NoLocalGroups]}, markers |-> {FALSE},
     times |-> {0}, users |-> {}, oks |-> {TRUE}, procs |-> {}, reopens |-> {FALSE}, removes |-> {TRUE}, cleanFails |-> {{}}]

StoreIdle == StoreInitState(NoStoreInputs)

\* What is kept of an operation: its error, whether it went through
\* requestClearDatabase, what it returned and what it handed on.
Report(op, arg, r) ==
    [op |-> op, arg |-> arg, err |-> r.err, clear |-> r.clear, out |-> r.out,
     toStore |-> r.toStore, toLocal |-> r.toLocal, wrote |-> r.wrote,
     updatedLocal |-> r.updatedLocal]

\* The expectations that mention none of the removed names.
Forget(sn, names) ==
    [sn EXCEPT !.written = {e \in @ : e.Name \notin names},
               !.bound = [n \in Names |-> IF n \in names THEN Nil ELSE @[n]]]

\* An expiry sweep that takes its cutoff from the time it runs at.
CutoffAtSweep(ck) == ck.now - ExpiryWindow

\* The cutoff of a sweep: opts.expirationDate, set by NewManager
\* (manager.go:67) and handed as it is to every sweep (manager.go:107, 313).
SweepCutoff(ck) == ck.expirationDate

\* NewManager (manager.go:65-114) on the directory as it is at time now.
\* openFails: cache.New fails with another error than ErrNeedsClearing;
\* order, fails: as for CleanExpiredUserData;
\* removeDbOk, clearOk, cleanOk: cache.RemoveDb, cache.Clear and
\* localgroups.Clean succeed.  A file removed by RemoveDb opens afresh,
\* unless reopenNeedsClearing: then the second cache.New fails with
\* ErrNeedsClearing as the first did, the loop ends after its two rounds and
\* m.cache is left unset.  A call of a method of the unset cache that reads
\* the database panics.
NewManager(s, lg, mk, now, in) ==
    LET failed == [ok |-> FALSE, s |-> s, lg |-> lg, dirty |-> mk,
                   expirationDate |-> now - ExpiryWindow,
                   found |-> (mk \/ s.file = "invalid"),
                   cache |-> "none", panics |-> FALSE]
        opened == IF s.file = "invalid"
                  THEN [s |-> EmptyStore,
                        lg |-> IF in.cleanOk THEN LocalGroupsClean(lg, EmptyStore) ELSE lg]
                  ELSE [s |-> s, lg |-> lg]
        cleared == IF mk THEN MgrClear(opened.s, opened.lg, mk, in.clearOk, in.cleanOk)
                   ELSE [s |-> opened.s, lg |-> opened.lg, dirty |-> mk, err |-> NoErr]
        swept == CleanExpiredUserData(cleared.s, cleared.lg, in.proc, now - ExpiryWindow,
                                      in.order, in.fails)
        unset == [failed EXCEPT !.s = [EmptyStore EXCEPT !.file = "invalid"], !.lg = opened.lg]
    IN IF in.openFails THEN failed
       ELSE IF s.file = "invalid" /\ ~in.removeDbOk THEN failed
       ELSE IF s.file = "invalid" /\ in.reopenNeedsClearing
       THEN IF mk \/ getUIDsOfRunningProcesses(in.proc).err = NoErr
            THEN [unset EXCEPT !.panics = TRUE]
            ELSE [unset EXCEPT !.ok = TRUE, !.cache = "unset"]
       ELSE IF cleared.err # NoErr
       THEN [failed EXCEPT !.s = cleared.s, !.lg = cleared.lg, !.dirty = cleared.dirty]
       ELSE [failed EXCEPT !.ok = TRUE, !.s = swept.s, !.lg = swept.lg,
                           !.dirty = cleared.dirty, !.cache = "open"]

-----------------------------------------------------------------------------
(* The users manager as a state machine.                                   *)

\* The manager NewManager returns (manager.go:65-114): the cache is open,
\* the marker, had there been one, is cleared, and the cleanup goroutine is
\* started.
MgrInitState ==
    /\ db = "ok"
    /\ stored = {}
    /\ marker = FALSE
    /\ loop = "select"
    /\ quit = FALSE
    /\ cleanupStopped = FALSE
    /\ stopPc = "idle"
    /\ quitAt = "none"
    /\ cacheClosed = FALSE
    /\ ops = [c \in Callers |-> IdleOp]
    /\ calls = 0
    /\ corruptions = 0
    /\ droppedInClear = FALSE

loopVars == <<loop, quit, cleanupStopped, stopPc, quitAt, cacheClosed>>
countVars == <<calls, corruptions>>

\* A caller enters a store operation: the cache call and what the operation
\* makes of its result.
OpCall(c) ==
    /\ ops[c].pc = "idle"
    /\ ~cacheClosed
    /\ calls < MaxCalls
    /\ calls' = calls + 1
    /\ \E r \in OpOutcomes(db, stored) :
          /\ ops' = [ops EXCEPT ![c] = [IdleOp EXCEPT !.pc = r.next, !.err = r.err]]
          /\ stored' = r.stored
    /\ UNCHANGED <<gdmVars, storeVars, auxVars, db, marker, loopVars, corruptions, droppedInClear>>

\* requestClearDatabase, first half (manager.go:288-290): markCorrupted.
OpMarkCorrupted(c) ==
    /\ ops[c].pc = "mark"
    /\ marker' = markCorrupted(marker)
    /\ ops' = [ops EXCEPT ![c].pc = "select", ![c].marked = marker']
    /\ UNCHANGED <<gdmVars, storeVars, auxVars, db, stored, loopVars, countVars, droppedInClear>>

\* The send on doClear meets the receive of the cleanup goroutine
\* (manager.go:292 and 304): the requester goes on, the goroutine clears.
OpSendDoClear(c) ==
    /\ ops[c].pc = "select"
    /\ loop = "select"
    /\ loop' = "clearDb"
    /\ ops' = [ops EXCEPT ![c].pc = "ret", ![c].requested = "sent"]
    /\ droppedInClear' = FALSE
    /\ UNCHANGED <<gdmVars, storeVars, auxVars, db, stored, marker, quit, cleanupStopped, stopPc, quitAt,
                   cacheClosed, countVars>>

\* The 10ms of the requester pass (manager.go:293) while the cleanup
\* goroutine is not at its select: the request is dropped.
OpTimeout(c) ==
    /\ ops[c].pc = "select"
    /\ loop # "select"
    /\ ops' = [ops EXCEPT ![c].pc = "ret", ![c].requested = "dropped"]
    /\ droppedInClear' = (droppedInClear \/ loop \in ClearSteps)
    /\ UNCHANGED <<gdmVars, storeVars, auxVars, db, stored, marker, loopVars, countVars>>

\* The operation returns its error to the caller.
OpReturn(c) ==
    /\ ops[c].pc = "ret"
    /\ ops' = [ops EXCEPT ![c] = IdleOp]
    /\ UNCHANGED <<gdmVars, storeVars, auxVars, db, stored, marker, loopVars, countVars, droppedInClear>>

\* case <-time.After(opts.cleanupInterval) (manager.go:311).
LoopTick ==
    /\ loop = "select"
    /\ loop' = "sweep"
    /\ UNCHANGED <<gdmVars, storeVars, auxVars, db, stored, marker, quit, cleanupStopped, stopPc, quitAt,
                   cacheClosed, ops, countVars, droppedInClear>>

\* The sweep of the expired users (manager.go:312-316).
LoopSweep ==
    /\ loop = "sweep"
    /\ loop' = "select"
    /\ stored' \in cleanExpiredUserData(stored)
    /\ UNCHANGED <<gdmVars, storeVars, auxVars, db, marker, quit, cleanupStopped, stopPc, quitAt,
                   cacheClosed, ops, countVars, droppedInClear>>

\* case <-m.quit (manager.go:318-319), and the deferred close of
\* cleanupStopped (300).
LoopQuit ==
    /\ loop = "select"
    /\ quit
    /\ loop' = "stopped"
    /\ cleanupStopped' = TRUE
    /\ UNCHANGED <<gdmVars, storeVars, auxVars, db, stored, marker, quit, stopPc, quitAt, cacheClosed,
                   ops, countVars, droppedInClear>>

\* Manager.clear, m.cache.Clear (manager.go:342-344).
ClearCache ==
    /\ loop = "clearDb"
    /\ loop' = "clearMarker"
    /\ db' = "ok"
    /\ stored' = {}
    /\ UNCHANGED <<gdmVars, storeVars, auxVars, marker, quit, cleanupStopped, stopPc, quitAt, cacheClosed,
                   ops, countVars, droppedInClear>>

\* Manager.clear, os.Remove(m.dirtyFlagPath) (manager.go:345-347).
ClearMarker ==
    /\ loop = "clearMarker"
    /\ loop' = "clearGroups"
    /\ marker' = FALSE
    /\ UNCHANGED <<gdmVars, storeVars, auxVars, db, stored, quit, cleanupStopped, stopPc, quitAt,
                   cacheClosed, ops, countVars, droppedInClear>>

\* Manager.clear, localgroups.Clean (manager.go:349-353), and the return to
\* the select.
ClearGroups ==
    /\ loop = "clearGroups"
    /\ loop' = "select"
    /\ UNCHANGED <<gdmVars, storeVars, auxVars, db, stored, marker, quit, cleanupStopped, stopPc, quitAt,
                   cacheClosed, ops, calls, corruptions, droppedInClear>>

\* Manager.Stop, close(m.quit) (manager.go:118).
StopCloseQuit ==
    /\ stopPc = "idle"
    /\ stopPc' = "wait"
    /\ quit' = TRUE
    /\ quitAt' = loop
    /\ UNCHANGED <<gdmVars, storeVars, auxVars, db, stored, marker, loop, cleanupStopped, cacheClosed,
                   ops, countVars, droppedInClear>>

\* Manager.Stop, <-m.cleanupStopped and m.cache.Close() (manager.go:119-120).
StopCloseCache ==
    /\ stopPc = "wait"
    /\ WaitCleanupStopped(cleanupStopped)
    /\ stopPc' = "done"
    /\ cacheClosed' = TRUE
    /\ UNCHANGED <<gdmVars, storeVars, auxVars, db, stored, marker, loop, quit, cleanupStopped, quitAt,
                   ops, countVars, droppedInClear>>

\* The database file is damaged on disk: an entry is garbled or a bucket is
\* lost.  The damage arrives while no clear is rewriting the file.
Corrupt ==
    /\ corruptions < MaxCorruptions
    /\ ~cacheClosed
    /\ loop \notin ClearSteps
    /\ corruptions' = corruptions + 1
    /\ db' \in {"garbled", "nobucket"}
    /\ UNCHANGED <<gdmVars, storeVars, auxVars, stored, marker, loopVars, ops, calls,
                   droppedInClear>>

NoInputs == [events |-> {}, injects |-> {}]

MgrNext ==
    \/ \E c \in Callers : OpCall(c)
    \/ \E c \in Callers : OpMarkCorrupted(c)
    \/ \E c \in Callers : OpSendDoClear(c)
    \/ \E c \in Callers : OpTimeout(c)
    \/ \E c \in Callers : OpReturn(c)
    \/ LoopTick
    \/ LoopSweep
    \/ LoopQuit
    \/ ClearCache
    \/ ClearMarker
    \/ ClearGroups
    \/ StopCloseQuit
    \/ StopCloseCache
    \/ Corrupt

InitMgr == GdmInitState(NoInputs) /\ MgrInitState /\ StoreIdle /\ AuxIdle

SpecMgr == InitMgr /\ [][MgrNext]_vars

\* The cleanup goroutine and Stop go on running; the select of the goroutine
\* takes the closed quit channel sooner or later, as the choice among ready
\* cases is random.
FairSpecMgr ==
    /\ SpecMgr
    /\ WF_vars(LoopSweep)
    /\ WF_vars(ClearCache)
    /\ WF_vars(ClearMarker)
    /\ WF_vars(ClearGroups)
    /\ SF_vars(LoopQuit)
    /\ WF_vars(StopCloseCache)

-----------------------------------------------------------------------------
(* The operations on the store in detail as a state machine.               *)

\* The names whose user, or whose binding, s1 holds and s2 does not.
Gone(s1, s2) ==
    {n \in Names : \/ s1.byName[n].kind = "user" /\ s2.byName[n].kind # "user"
                   \/ s1.brokers[n] # Nil /\ s2.brokers[n] = Nil}

otherVars == <<gdmVars, mgrVars, auxVars>>

\* The daemon starts: NewManager.
StartManager ==
    /\ phase = "down"
    /\ \E openFails \in {~ok : ok \in storeIn.oks}, removeDbOk \in storeIn.oks,
          clearOk \in storeIn.oks, cleanOk \in storeIn.oks, proc \in storeIn.procs,
          reopenNeedsClearing \in storeIn.reopens, order \in Orders(Names),
          fails \in storeIn.cleanFails :
          LET r == NewManager(store, lgroups, dirty, clock.now,
                              [openFails |-> openFails, removeDbOk |-> removeDbOk,
                               clearOk |-> clearOk, cleanOk |-> cleanOk, proc |-> proc,
                               reopenNeedsClearing |-> reopenNeedsClearing,
                               order |-> order, fails |-> fails])
          IN /\ store' = r.s
             /\ lgroups' = r.lg
             /\ dirty' = r.dirty
             /\ phase' = IF r.ok /\ r.cache = "open" THEN "up"
                         ELSE IF r.ok THEN "unset" ELSE "down"
             /\ clock' = IF r.ok THEN [clock EXCEPT !.expirationDate = r.expirationDate]
                         ELSE clock
             /\ last' = [op |-> "NewManager", ok |-> r.ok, found |-> r.found,
                          cache |-> r.cache, panics |-> r.panics,
                          twice |-> (store.file = "invalid" /\ ~openFails /\ removeDbOk
                                     /\ reopenNeedsClearing)]
             /\ seen' = Forget(seen, Gone(store, r.s))
    /\ pendingClear' = FALSE
    /\ UNCHANGED <<otherVars, storeIn, steps>>

\* What an operation leaves: the store, the local groups, the marker and
\* the request when it went through requestClearDatabase.
Apply(op, arg, r, sn) ==
    /\ store' = r.s
    /\ lgroups' = r.lg
    /\ dirty' = IF r.clear THEN markCorrupted(dirty) ELSE dirty
    /\ pendingClear' = (pendingClear \/ r.clear)
    /\ last' = Report(op, arg, r)
    /\ seen' = sn
    /\ steps' = steps + 1
    /\ UNCHANGED <<otherVars, storeIn, clock, phase>>

\* What is expected of the reads after UpdateUser(u) returned r.
SeenAfterUpdate(u, r) ==
    LET rekeys == /\ r.wrote
                  /\ \/ /\ store.byName[u.Name].kind = "user"
                        /\ store.byName[u.Name].uid # u.UID
                     \/ /\ store.byID[u.UID].kind = "user"
                        /\ store.byID[u.UID].name # u.Name
        others == {e \in seen.written : e.Name # u.Name /\ e.UID # u.UID}
    IN IF ~r.wrote THEN seen
       ELSE IF r.err # NoErr
       THEN [Forget(seen, Gone(store, r.s)) EXCEPT
                !.written = {e \in @ : e \in others},
                !.rekeyed = @ \/ rekeys]
       ELSE [seen EXCEPT
                !.written = others
                               \cup {[Name |-> u.Name, UID |-> u.UID,
                                      GID |-> u.Groups[1].GID, Gecos |-> u.Gecos,
                                      Dir |-> u.Dir, Shell |-> u.Shell]},
                !.rekeyed = @ \/ rekeys]

DoUpdateUser ==
    /\ phase = "up"
    /\ steps < MaxStoreSteps
    /\ \E u \in storeIn.users, groupsOk \in storeIn.oks :
          LET r == MgrUpdateUser(store, lgroups, u, clock.now, groupsOk)
          IN Apply("UpdateUser", u, r, SeenAfterUpdate(u, r))

DoUserByName ==
    /\ phase = "up"
    /\ steps < MaxStoreSteps
    /\ \E n \in Names :
          Apply("UserByName", n, MgrUserByName(store, lgroups, n), seen)

DoUserByID ==
    /\ phase = "up"
    /\ steps < MaxStoreSteps
    /\ \E u \in UIDs :
          Apply("UserByID", u, MgrUserByID(store, lgroups, u), seen)

DoAllUsers ==
    /\ phase = "up"
    /\ steps < MaxStoreSteps
    /\ Apply("AllUsers", Nil, MgrAllUsers(store, lgroups), seen)

DoGroupBy ==
    /\ phase = "up"
    /\ steps < MaxStoreSteps
    /\ \/ \E n \in {"grp", "nogrp"} :
             Apply("GroupByName", n, MgrGroupBy(store, lgroups, "name", n), seen)
       \/ \E g \in GIDs :
             Apply("GroupByID", g, MgrGroupBy(store, lgroups, "gid", g), seen)

DoBrokerForUser ==
    /\ phase = "up"
    /\ steps < MaxStoreSteps
    /\ \E n \in Names :
          Apply("BrokerForUser", n, MgrBrokerForUser(store, lgroups, n), seen)

DoUpdateBrokerForUser ==
    /\ phase = "up"
    /\ steps < MaxStoreSteps
    /\ \E n \in Names, b \in BrokerIds :
          LET r == MgrUpdateBrokerForUser(store, lgroups, n, b)
          IN Apply("UpdateBrokerForUser", <<n, b>>, r,
                   IF r.err = NoErr THEN [seen EXCEPT !.bound[n] = b] ELSE seen)

\* A tick of the cleanup goroutine (manager.go:311-316): the expiry sweep.
SweepTick ==
    /\ phase = "up"
    /\ steps < MaxStoreSteps
    /\ \E proc \in storeIn.procs, order \in Orders(Names), fails \in storeIn.cleanFails :
          LET r == CleanExpiredUserData(store, lgroups, proc, SweepCutoff(clock),
                                        order, fails)
          IN /\ store' = r.s
             /\ lgroups' = r.lg
             /\ last' = [op |-> "sweep", arg |-> proc, cleaned |-> r.cleaned,
                         called |-> r.called, fails |-> fails,
                         err |-> r.err, at |-> clock.now,
                         cutoff |-> SweepCutoff(clock)]
             /\ seen' = Forget(seen, Gone(store, r.s))
    /\ steps' = steps + 1
    /\ UNCHANGED <<otherVars, storeIn, dirty, pendingClear, clock, phase>>

\* The cleanup goroutine serves a request (manager.go:304-309): clear.
ServeClear ==
    /\ phase = "up"
    /\ pendingClear
    /\ pendingClear' = FALSE
    /\ \E clearOk \in storeIn.oks, removeOk \in storeIn.removes, cleanOk \in storeIn.oks :
          LET r == clear(store, lgroups, dirty, clearOk, removeOk, cleanOk)
          IN /\ store' = r.s
             /\ lgroups' = r.lg
             /\ dirty' = r.dirty
             /\ last' = [op |-> "clear", err |-> r.err, clearOk |-> clearOk,
                          removeOk |-> removeOk, cleanOk |-> cleanOk]
             /\ seen' = Forget(seen, Gone(store, r.s))
    /\ UNCHANGED <<otherVars, storeIn, clock, phase, steps>>

\* Time passes.
TimePasses ==
    /\ clock.now < MaxClock
    /\ clock' = [clock EXCEPT !.now = @ + 1]
    /\ UNCHANGED <<otherVars, storeIn, store, lgroups, dirty, pendingClear, phase,
                   last, seen, steps>>

\* The file is damaged: an entry no longer unmarshals, or a bucket is lost.
DamageStore ==
    /\ Healthy(store)
    /\ \/ \E u \in UIDs : store' = [store EXCEPT !.byID[u] = GarbledRec]
       \/ \E n \in Names : store' = [store EXCEPT !.byName[n] = GarbledRec]
       \/ store' = [store EXCEPT !.file = "nobucket"]
    /\ seen' = [Forget(seen, Names) EXCEPT !.damaged = TRUE]
    /\ last' = [op |-> "damage"]
    /\ UNCHANGED <<otherVars, storeIn, lgroups, dirty, pendingClear, clock, phase,
                   steps>>

\* The daemon stops; a request not yet served is lost with it.
StopManager ==
    /\ phase = "up"
    /\ phase' = "down"
    /\ pendingClear' = FALSE
    /\ last' = [op |-> "stop"]
    /\ UNCHANGED <<otherVars, storeIn, store, lgroups, dirty, clock, seen, steps>>

ValidGroups == <<GroupInfo("grp", 10), GroupInfo("localgrp", NoGID)>>
StoreUsers ==
    {UserInfo("alice", 1, "Alice", ValidGroups),
     UserInfo("alice", 1, "Alice L.", <<GroupInfo("grp2", 20)>>),
     UserInfo("alice", 2, "Alice", ValidGroups),
     UserInfo("bob", 1, "Bob", <<GroupInfo("grp2", 20)>>),
     UserInfo("bob", 2, "Bob", <<GroupInfo("grp2", 20)>>),
     UserInfo("", 1, "Nobody", ValidGroups),
     UserInfo("bob", 2, "Bob", <<>>),
     UserInfo("bob", 2, "Bob", <<GroupInfo("localgrp", NoGID), GroupInfo("grp", 10)>>),
     UserInfo("bob", 2, "Bob", <<GroupInfo("grp", 10), GroupInfo("", 20)>>),
     UserInfo("bob", 2, "Bob", <<GroupInfo("grp", 10), GroupInfo("", NoGID)>>)}

\* The runs of the start: the directory holds a marker or a file that does
\* not open, calls fail, and the daemon stops and starts again.
StartInputs ==
    [disks |-> InitDisks, markers |-> BOOLEAN, times |-> {0}, users |-> {},
     oks |-> BOOLEAN, procs |-> {EmptyProc}, reopens |-> {FALSE}, removes |-> {TRUE}, cleanFails |-> {{}}]

StartNext ==
    \/ StartManager
    \/ DoAllUsers
    \/ ServeClear
    \/ DamageStore
    \/ StopManager

InitStart == GdmInitState(NoInputs) /\ MgrInitState /\ StoreInitState(StartInputs) /\ AuxIdle

SpecStart == InitStart /\ [][StartNext]_vars

\* The runs of the expiry: time passes, processes come and go.
SweepInputs ==
    [disks |-> {d \in InitDisks : Healthy(d.s)}, markers |-> {FALSE}, times |-> {0},
     users |-> {UserInfo("bob", 2, "Bob", ValidGroups)}, oks |-> {TRUE},
     procs |-> ProcDirs, reopens |-> {FALSE}, removes |-> {TRUE}, cleanFails |-> {{}}]

SweepNext ==
    \/ StartManager
    \/ DoUpdateUser
    \/ SweepTick
    \/ TimePasses
    \/ StopManager

InitSweep == GdmInitState(NoInputs) /\ MgrInitState /\ StoreInitState(SweepInputs) /\ AuxIdle

SpecSweep == InitSweep /\ [][SweepNext]_vars

\* The runs of the reads and writes of a manager that is up.
StoreInputs ==
    [disks |-> {d \in InitDisks : d.s.file = "ok"}, markers |-> {FALSE},
     times |-> {MaxClock},
     users |-> {u \in StoreUsers : ValidateUser(u).err = NoErr}, oks |-> BOOLEAN,
     procs |-> {EmptyProc, [readable |-> TRUE, entries |-> {ProcEntry(TRUE, 1, "ok")}]},
     reopens |-> {FALSE}, removes |-> {TRUE}, cleanFails |-> {{}}]

StoreNext ==
    \/ StartManager
    \/ DoUpdateUser
    \/ DoUserByName
    \/ DoUserByID
    \/ DoAllUsers
    \/ DoGroupBy
    \/ DoBrokerForUser
    \/ DoUpdateBrokerForUser
    \/ SweepTick
    \/ ServeClear
    \/ DamageStore

InitStore == GdmInitState(NoInputs) /\ MgrInitState /\ StoreInitState(StoreInputs) /\ AuxIdle

SpecStore == InitStore /\ [][StoreNext]_vars

\* The runs of UpdateUser on every kind of user, valid or not.
UpdateInputs ==
    [disks |-> {d \in InitDisks : Healthy(d.s)}, markers |-> {FALSE}, times |-> {0},
     users |-> StoreUsers, oks |-> BOOLEAN, procs |-> {EmptyProc}, reopens |-> {FALSE}, removes |-> {TRUE}, cleanFails |-> {{}}]

UpdateNext ==
    \/ StartManager
    \/ DoUpdateUser
    \/ DoUserByName
    \/ StopManager

InitUpdate == GdmInitState(NoInputs) /\ MgrInitState /\ StoreInitState(UpdateInputs) /\ AuxIdle

SpecUpdate == InitUpdate /\ [][UpdateNext]_vars

-----------------------------------------------------------------------------
(* The specifications of the GDM side.                                     *)

\* The runs of the authentication: the parent model asks for
\* authentications, GDM answers them, cancels them and changes stage, the
\* broker gives its verdicts.
AuthInputs ==
    [events |-> {GdmEvent("IsAuthenticatedRequested", "item"),
                 GdmEvent("IsAuthenticatedCancelled", Nil),
                 GdmEvent("StageChanged", StageOther)},
     injects |-> {Msg("startAuthentication", Nil, NoData, 0)}]

GdmAuthNext ==
    \/ GdmInit
    \/ UpdateStopped
    \/ UpdateGdmPollDone
    \/ OnStartAuthentication
    \/ OnIsAuthenticatedResultReceived
    \/ OnIsAuthenticatedCancelled
    \/ UpdateIgnored
    \/ RunCmd
    \/ StopConversations
    \/ Inject
    \/ BrokerReply

InitGdmAuth == GdmInitState(AuthInputs) /\ MgrInitState /\ StoreIdle /\ AuxIdle

SpecGdmAuth == InitGdmAuth /\ [][GdmAuthNext]_vars

\* The runs of the selections: users, brokers and modes are selected in GDM
\* and by the parent model, and the events go to GDM.
SessionInputs ==
    [events |-> {GdmEvent("UserSelected", u) : u \in Users},
     injects |-> {Msg("userSelected", "root", NoData, 0),
                  Msg("brokersListReceived", Nil, NoData, 0),
                  Msg("UILayoutReceived", Nil, NoData, 0)}]

GdmSessionNext ==
    \/ GdmInit
    \/ UpdateStopped
    \/ UpdateGdmPollDone
    \/ UpdateUserSelected
    \/ UpdateForward
    \/ UpdateUILayoutReceived
    \/ RunCmd
    \/ ChangeStageCall
    \/ StopConversations
    \/ Inject

InitGdmSession == GdmInitState(SessionInputs) /\ MgrInitState /\ StoreIdle /\ AuxIdle

SpecGdmSession == InitGdmSession /\ [][GdmSessionNext]_vars


-----------------------------------------------------------------------------
(* Properties of the GDM side.                                             *)

\* C1: once the PAM user of the session is set it is never replaced, and
\* every handled selection of another user raised an authentication error.
C1_UserImmutable ==
    /\ [](userRejects = userConflicts)
    /\ [](userConflicts > 0 => "ErrAuth" \in pamErrors)
    /\ [][pamUser # NoUser => pamUser' = pamUser]_vars

C1_Witness ==
    /\ pamUser = "alice"
    /\ userConflicts >= 1
    /\ "ErrAuth" \in pamErrors

\* C2: at most one authentication is in flight: a StartAuthentication is
\* emitted only when none is pending, so every emission but the pending one
\* was closed by a consumed request or a cancel, and no request is forwarded
\* without an authentication it consumes.
C2_SingleAuthInFlight ==
    /\ nStart = nClose + (IF waitingAuth THEN 1 ELSE 0)
    /\ nForwarded <= nClose

C2_Witness ==
    /\ nStart = 2
    /\ nForwarded >= 1
    /\ waitingAuth

\* C3: for each started authentication at most one AuthEvent(cancelled) is
\* emitted, and none before any authentication was started.
C3_CancelOnce == cancelSinceStart <= (IF nStart = 0 THEN 0 ELSE 1)

\* C4: once conversationsStopped is set, no event is emitted to GDM and no
\* stage change or poll is sent to it.
C4_NoConversationAfterStop ==
    talkedAfterStop \cap {"emitEvent", "changeStage", "poll"} = {}

\* The AuthEvent(denied) responses emitted for the broker result id.
DeniedEvents(id) ==
    LET S == {e \in BagToSet(authEvents) : e.id = id /\ e.access = AuthDenied}
        RECURSIVE Sum(_)
        Sum(T) == IF T = {} THEN 0
                  ELSE LET e == CHOOSE x \in T : TRUE
                       IN CopiesIn(e, authEvents) + Sum(T \ {e})
    IN Sum(S)

CarriesDenied(h) == h.access = AuthDenied \/ h.access \in UnknownAccess

\* C5 as stated: every result carrying Denied (an unknown verdict included)
\* that Update has handled to the end gave exactly one AuthEvent(denied).
C5_DeniedExactlyOnce ==
    \A id \in ResultIds :
       (CarriesDenied(handled[id]) /\ handled[id].state \in {"emitted", "error"})
          => DeniedEvents(id) = 1

\* C5 as amended: a result carrying Denied (an unknown verdict included)
\* never gives two AuthEvent(denied); handled before the stop it gives
\* exactly one when its data decodes, and none, with a system error, when
\* the data does not decode.
C5_DeniedAtMostOnce ==
    \A id \in ResultIds :
       LET h == handled[id]
       IN /\ DeniedEvents(id) <= 1
          /\ (CarriesDenied(h) /\ h.state = "emitted") => DeniedEvents(id) = 1
          /\ (CarriesDenied(h) /\ h.state = "error") =>
                (~h.wellFormed /\ DeniedEvents(id) = 0)
          /\ (CarriesDenied(h) /\ h.state \in {"none", "sent", "remapped", "dropped"})
                => DeniedEvents(id) = 0

C5_Witness ==
    \E id \in ResultIds :
       /\ handled[id].access \in UnknownAccess
       /\ handled[id].state = "emitted"
       /\ DeniedEvents(id) = 1

-----------------------------------------------------------------------------
(* Properties of the users manager.                                        *)

C8_MarkerLeadsToClear ==
    ~ /\ marker
      /\ db # "ok"
      /\ stopPc = "idle"
      /\ loop = "select"
      /\ \A c \in Callers : ops[c].pc \notin {"mark", "select"}

\* C9: when a request was dropped while a clear was running, the end of that
\* clear leaves the database cleared and the marker absent.
C9_DroppedRequestEndState ==
    [][(loop = "clearGroups" /\ loop' = "select" /\ droppedInClear)
          => (~marker' /\ db' = "ok")]_vars

\* C10: the cache is closed only once the cleanup goroutine has stopped, so
\* never during a clear or a sweep, and Stop, once called, returns.
C10_ShutdownOrdering ==
    /\ [](cacheClosed => (quit /\ cleanupStopped /\ loop = "stopped"))
    /\ (stopPc = "wait") ~> (stopPc = "done")

C10_Witness ==
    /\ stopPc = "done"
    /\ cacheClosed
    /\ quitAt \in ClearSteps \cup {"sweep"}

-----------------------------------------------------------------------------
(* The store.                                                              *)

RunningUIDs(proc) == {e.uid : e \in {x \in proc.entries : x.numeric /\ x.state = "ok"}}
ScanFails(proc) ==
    ~proc.readable \/ \E e \in proc.entries : e.numeric /\ e.state = "error"

\* The users a sweep with that cutoff is due to remove.
Due(s, proc, cutoff) ==
    {n \in Names : /\ s.byName[n].kind = "user"
                   /\ s.byName[n].lastLogin < cutoff
                   /\ s.byName[n].uid \notin RunningUIDs(proc)}

C12_WitnessRetained ==
    /\ last.op = "sweep"
    /\ last.err = NoErr
    /\ last.cleaned = {}
    /\ store.byName["alice"].kind = "user"
    /\ store.byName["alice"].lastLogin < last.cutoff
    /\ 1 \in RunningUIDs(last.arg)


\* C13: a sweep started by a tick takes as cutoff the time it runs at less
\* the expiry window.
C13_CutoffFollowsClock ==
    last.op = "sweep" => last.cutoff = CutoffAtSweep([now |-> last.at])


\* The two keyings agree: the record UserByID gives for a uid is the one
\* UserByName gives for its name, and the other way round.
IndexesAgree ==
    /\ \A u \in UIDs :
          LET r == MgrUserByID(store, lgroups, u)
          IN r.err = NoErr
                => LET n == MgrUserByName(store, lgroups, r.out[1].Name)
                   IN n.err = NoErr /\ n.out[1].UID = u
    /\ \A n \in Names :
          LET r == MgrUserByName(store, lgroups, n)
          IN r.err = NoErr
                => LET i == MgrUserByID(store, lgroups, r.out[1].UID)
                   IN i.err = NoErr /\ i.out[1].Name = n

C15_UpdateThenRead ==
    \A e \in seen.written :
       /\ MgrUserByName(store, lgroups, e.Name).err = NoErr
       /\ MgrUserByName(store, lgroups, e.Name).out = <<e>>
       /\ MgrUserByID(store, lgroups, e.UID).err = NoErr
       /\ MgrUserByID(store, lgroups, e.UID).out = <<e>>

\* UserByID gave back a user written before, with the GID of its first group.
C15_Witness ==
    /\ last.op = "UserByID"
    /\ last.err = NoErr
    /\ last.out[1] \in seen.written
    /\ last.out[1].GID = 10
    /\ last.out[1].UID = 2


\* The invalid arguments of UpdateUser: no name, no group, a first group
\* without GID, a group without name.
InvalidUser(u) ==
    \/ u.Name = ""
    \/ u.Groups = <<>>
    \/ u.Groups[1].GID = NoGID
    \/ \E i \in 1..Len(u.Groups) : u.Groups[i].Name = ""

\* C16: UpdateUser on an invalid argument returns an error and leaves the
\* store, the local groups and the marker as they were, and asks for no
\* clear.
C16_InvalidUserRejected ==
    [][(steps' = steps + 1 /\ last'.op = "UpdateUser" /\ InvalidUser(last'.arg))
          => /\ last'.err # NoErr
             /\ ~last'.wrote
             /\ ~last'.updatedLocal
             /\ store' = store
             /\ lgroups' = lgroups
             /\ dirty' = dirty
             /\ pendingClear' = pendingClear]_vars

\* UpdateUser refused a user whose second group has no name, with alice and
\* her local group stored.
C16_Witness ==
    /\ last.op = "UpdateUser"
    /\ Len(last.arg.Groups) = 2
    /\ last.arg.Groups[2].Name = ""
    /\ last.err # NoErr
    /\ store.byName["alice"].kind = "user"
    /\ lgroups["alice"] # {}


\* The groups of u with a GID, as records of the store, and the names of
\* those without, each in the order of u.Groups.
RECURSIVE WithGID(_)
WithGID(groups) ==
    IF groups = <<>> THEN <<>>
    ELSE IF Head(groups).GID # NoGID
    THEN <<NewGroupDB(Head(groups).Name, Head(groups).GID)>> \o WithGID(Tail(groups))
    ELSE WithGID(Tail(groups))

RECURSIVE WithoutGID(_)
WithoutGID(groups) ==
    IF groups = <<>> THEN <<>>
    ELSE IF Head(groups).GID = NoGID
    THEN <<Head(groups).Name>> \o WithoutGID(Tail(groups))
    ELSE WithoutGID(Tail(groups))

\* C17: an UpdateUser that reaches the store hands it the groups with a GID
\* and no other, and hands the local-groups update, when it reaches it, the
\* names of the groups without GID and no other; no group record of the
\* store is without GID, and the local groups of the user are those names.
C17_GroupsSplitByGID ==
    /\ (last.op = "UpdateUser" /\ last.wrote)
          => /\ last.toStore = WithGID(last.arg.Groups)
             /\ last.updatedLocal => last.toLocal = WithoutGID(last.arg.Groups)
             /\ (last.err = NoErr)
                   => /\ last.updatedLocal
                      /\ lgroups[last.arg.Name] = SeqRange(WithoutGID(last.arg.Groups))
                      /\ SeqRange(WithGID(last.arg.Groups)) \subseteq store.groups
    /\ \A g \in store.groups : g.gid # NoGID /\ g.name \notin LocalGroupNames

\* UpdateUser stored the group with a GID and handed the one without to the
\* local groups.
C17_Witness ==
    /\ last.op = "UpdateUser"
    /\ last.err = NoErr
    /\ last.toStore = <<NewGroupDB("grp", 10)>>
    /\ last.toLocal = <<"localgrp">>
    /\ lgroups[last.arg.Name] = {"localgrp"}


\* C18: BrokerForUser gives the broker of the last UpdateBrokerForUser of
\* that name that returned no error, for as long as the user is not
\* removed, and ErrNoDataFound and nothing else for a name without binding.
C18_BrokerRoundTrip ==
    \A n \in Names :
       /\ seen.bound[n] # Nil
             => /\ MgrBrokerForUser(store, lgroups, n).err = NoErr
                /\ MgrBrokerForUser(store, lgroups, n).out = <<seen.bound[n]>>
       /\ (store.file = "ok" /\ store.brokers[n] = Nil)
             => /\ MgrBrokerForUser(store, lgroups, n).err = {ErrNoDataFound}
                /\ MgrBrokerForUser(store, lgroups, n).out = <<>>

\* BrokerForUser gave the broker bound before, and the other name has none.
C18_Witness ==
    /\ last.op = "BrokerForUser"
    /\ last.err = NoErr
    /\ seen.bound[last.arg] # Nil
    /\ last.out = <<seen.bound[last.arg]>>
    /\ \E n \in Names : store.brokers[n] = Nil


Lookups == {"UserByName", "UserByID", "GroupByName", "GroupByID", "BrokerForUser"}

\* The key of a lookup is absent from a file that reads well.
Absent(s, op, arg) ==
    /\ s.file = "ok"
    /\ \/ op = "UserByName" /\ s.byName[arg] = NoRec
       \/ op = "UserByID" /\ s.byID[arg] = NoRec
       \/ op = "GroupByName" /\ \A g \in s.groups : g.name # arg
       \/ op = "GroupByID" /\ \A g \in s.groups : g.gid # arg
       \/ op = "BrokerForUser" /\ s.brokers[arg] = Nil

\* The lookup meets a missing bucket or an entry that does not decode.
Unreadable(s, op, arg) ==
    \/ s.file # "ok"
    \/ op = "UserByName" /\ s.byName[arg] = GarbledRec
    \/ op = "UserByID" /\ s.byID[arg] = GarbledRec

\* C19: a lookup of an absent user, group or binding returns a not-found
\* error that is not ErrNeedsClearing, and leaves the store, the local groups,
\* the marker and the pending clear request as they were; a lookup returns
\* ErrNeedsClearing only when it met a missing bucket or an entry that does
\* not decode.
C19_NotFoundLeavesNoTrace ==
    [][(steps' = steps + 1 /\ last'.op \in Lookups)
          => /\ Absent(store, last'.op, last'.arg)
                   => /\ last'.err \cap {NoDataFoundError, ErrNoDataFound} # {}
                      /\ ~Is(last'.err, ErrNeedsClearing)
                      /\ ~last'.clear
                      /\ store' = store
                      /\ lgroups' = lgroups
                      /\ dirty' = dirty
                      /\ pendingClear' = pendingClear
             /\ Is(last'.err, ErrNeedsClearing)
                   => Unreadable(store, last'.op, last'.arg)]_vars

\* UserByID found no bob beside alice and left no marker and no request; so
\* did GroupByName.
C19_Witness ==
    /\ last.op \in {"UserByID", "GroupByName"}
    /\ last.err = {NoDataFoundError}
    /\ store.byName["alice"].kind = "user"
    /\ ~dirty
    /\ ~pendingClear


\* C20: AllUsers returns no user and an error wrapping ErrNeedsClearing when
\* the bucket is missing or an entry of it does not decode, and one entry
\* for every stored user and no error otherwise.
C20_AllUsersAllOrNothing ==
    LET r == MgrAllUsers(store, lgroups)
        users == {u \in UIDs : store.byID[u].kind = "user"}
    IN /\ IF store.file # "ok" \/ \E u \in UIDs : store.byID[u] = GarbledRec
          THEN r.out = <<>> /\ Is(r.err, ErrNeedsClearing)
          ELSE /\ r.err = NoErr
               /\ Len(r.out) = Cardinality(users)
               /\ SeqRange(r.out)
                     = {userEntryFromUserDB(toUserPasswdShadow(store.byID[u])) : u \in users}
       /\ last.op = "AllUsers" => (last.out = r.out /\ last.err = r.err)

\* AllUsers met alice and then an entry that does not decode, and returned
\* no user.
C20_Witness ==
    /\ last.op = "AllUsers"
    /\ Is(last.err, ErrNeedsClearing)
    /\ last.out = <<>>
    /\ store.byID[1].kind = "user"
    /\ store.byID[2] = GarbledRec


-----------------------------------------------------------------------------
(***************************************************************************)
(* GenerateID (internal/users/manager.go).                                 *)
(*                                                                         *)
(* A string is a sequence of runes.  SHA-256 is a function the model does  *)
(* not compute: the first four bytes of each hash of the chain             *)
(* sha256(str), sha256(sha256(str)), ... are drawn, once for each          *)
(* lower-cased string, and kept, so that the same bytes hash alike.        *)
(* A prefix is kept as its two 16-bit halves: the 32-bit word does not fit *)
(* the integers of the checker.                                            *)
(***************************************************************************)
MaxGenCalls == 2
MaxRehash == 1

minID == 65536
maxID == 2147483647

Runes == {"i", "I", "dotless_i"}

\* unicode.ToLower and unicode.ToUpper on the runes above: the dotless i is
\* lower case, its upper case is I, and the lower case of I is i.
ToLowerRune(c) == CASE c = "I" -> "i" [] OTHER -> c
ToUpperRune(c) == CASE c = "i" -> "I" [] c = "dotless_i" -> "I" [] OTHER -> c

ToLower(str) == [k \in 1..Len(str) |-> ToLowerRune(str[k])]
ToUpper(str) == [k \in 1..Len(str) |-> ToUpperRune(str[k])]

Strs == {<<"i">>, <<"I">>, <<"dotless_i">>}
Lowered == {ToLower(s) : s \in Strs}

Half == 65536
Prefix(hi, lo) == [hi |-> hi, lo |-> lo]
\* 0xFFFF, 0x10000, 0x7FFFFFFE, 0x7FFFFFFF, 0xFFFFFFFF
Prefixes == {Prefix(0, Half - 1), Prefix(1, 0), Prefix(Half \div 2 - 1, Half - 2),
             Prefix(Half \div 2 - 1, Half - 1), Prefix(Half - 1, Half - 1)}
HashChains == [1..(MaxRehash + 1) -> Prefixes]

\* binary.BigEndian.Uint32(hash[:4]) % maxID, on the halves of the word
Reduce(p) ==
    IF p.hi < Half \div 2
    THEN (p.hi * Half + p.lo) % maxID
    ELSE LET y == (p.hi - Half \div 2) * Half + p.lo    \* the word less 2^31 = maxID + 1
         IN  IF y = maxID THEN 1 ELSE (y + 1) % maxID

\* the for loop, over the hashes of the chain h from the k-th on; the chain of
\* the model ends, the loop of the code goes on ("returns" is then FALSE)
RECURSIVE hashLoop(_, _)
hashLoop(h, k) ==
    LET number == Reduce(h[k])
    IN  IF number >= minID THEN [returns |-> TRUE, id |-> number, used |-> k]
        ELSE IF k = Len(h) THEN [returns |-> FALSE, id |-> number, used |-> k]
        ELSE hashLoop(h, k + 1)

GenerateIDOneHash(str, sha) ==
    [returns |-> TRUE, id |-> Reduce(sha[ToLower(str)][1]), used |-> 1]

\* sha[s] is the chain of hashes that starts with sha256(s)
GenerateID(str, sha) == hashLoop(sha[ToLower(str)], 1)

IdsInitState ==
    ids = [pc |-> "ready", sha |-> [s \in Lowered |-> <<>>], out |-> {}, spinning |-> {}, calls |-> 0]

\* One call of GenerateID(str).
GenerateIDCall(str) ==
    /\ ids.pc = "ready"
    /\ ids.calls < MaxGenCalls
    /\ \E h \in HashChains :
          LET low   == ToLower(str)
              known == ids.sha[low]
              r     == GenerateID(str, [ids.sha EXCEPT ![low] = h])
          IN  /\ Len(known) <= Len(h)
              /\ SubSeq(h, 1, Len(known)) = known
              /\ ids' = [ids EXCEPT
                          !.sha[low] = IF Len(known) > r.used THEN known ELSE SubSeq(h, 1, r.used),
                          !.out = IF r.returns THEN @ \cup {[arg |-> str, id |-> r.id]} ELSE @,
                          !.spinning = IF r.returns THEN @ ELSE @ \cup {str},
                          !.calls = @ + 1]
    /\ UNCHANGED <<gdmVars, mgrVars, lateVars, storeVars, inflight, sel, temp, resel>>

InitGenerateID ==
    /\ GdmInitState(NoInputs) /\ MgrInitState /\ StoreIdle
    /\ inflight = Off /\ sel = Off /\ temp = Off /\ resel = Off /\ LateIdle
    /\ IdsInitState

GenerateIDNext == \E str \in Strs : GenerateIDCall(str)

SpecGenerateID == InitGenerateID /\ [][GenerateIDNext]_vars

\* C21: every id GenerateID returns lies in [65536, 2^31), whatever the
\* first four bytes of the hashes of the chain are.
C21_IDInRange ==
    \A r \in ids.out : minID <= r.id /\ r.id <= maxID

\* a call that hashed again, after a word that reduces to less than minID,
\* and a call that returned the reduction of a word above 2^31
C21_Witness ==
    /\ \E r \in ids.out : Len(ids.sha[ToLower(r.arg)]) > 1
    /\ \E r \in ids.out : Len(ids.sha[ToLower(r.arg)]) = 1 /\ ids.sha[ToLower(r.arg)][1].hi < Half \div 2

\* C22: GenerateID returns the same id for a string and for its upper case,
\* and the same id each time it is given the same string.
C22_IgnoresCase ==
    \A r1, r2 \in ids.out :
        (r2.arg = ToUpper(r1.arg) \/ r2.arg = r1.arg) => r1.id = r2.id


-----------------------------------------------------------------------------
(***************************************************************************)
(* startBrokerSession (pam, the command that selects the broker).          *)
(*                                                                         *)
(* A string of the environment is a sequence of pieces; ".UTF-8" is a      *)
(* piece, so that a suffix is the last piece.  The environment is read     *)
(* with os.Getenv: an unset variable and an empty one read alike.          *)
(***************************************************************************)
LangOrder == <<"LANG", "LC_MESSAGES", "LC_ALL">>
LangNames == {LangOrder[k] : k \in DOMAIN LangOrder}

UTF8 == ".UTF-8"
EnvValues == {<<>>, <<"en_US", UTF8>>, <<"fr_FR">>, <<"de_DE", UTF8, "@euro">>, <<UTF8>>}
Environments == [LangNames -> EnvValues]

TrimSuffix(s, suffix) ==
    IF Len(s) > 0 /\ s[Len(s)] = suffix THEN SubSeq(s, 1, Len(s) - 1) ELSE s

\* the loop over LANG, LC_MESSAGES, LC_ALL from the k-th name on
RECURSIVE langLoop(_, _, _)
langLoop(env, k, lang) ==
    IF k > Len(LangOrder) THEN lang
    ELSE LET l == env[LangOrder[k]]
         IN  langLoop(env, k + 1, IF l # <<>> THEN l ELSE lang)

RECURSIVE langLoopBreaking(_, _, _)
langLoopBreaking(env, k, lang) ==
    IF k > Len(LangOrder) THEN lang
    ELSE LET l == env[LangOrder[k]]
         IN  IF l # <<>> THEN l ELSE langLoopBreaking(env, k + 1, lang)

LangFirstSet(env) == TrimSuffix(langLoopBreaking(env, 1, <<"C">>), UTF8)

Lang(env) == TrimSuffix(langLoop(env, 1, <<"C">>), UTF8)

BrokerIDs == {"local", "remote1"}
SessionIDs == {"", "session1"}
EncryptionKeys == {"", "key1"}
\* what client.SelectBroker returns: an error, or a response
SBResponses ==
    {[err |-> TRUE, sessionID |-> "", encryptionKey |-> ""]}
    \cup {[err |-> FALSE, sessionID |-> s, encryptionKey |-> k] : s \in SessionIDs, k \in EncryptionKeys}

NoSBRequest == [sent |-> FALSE, brokerID |-> "", username |-> "", lang |-> <<>>]
SBRequest(brokerID, username, lang) ==
    [sent |-> TRUE, brokerID |-> brokerID, username |-> username, lang |-> lang]

TeaMsg(type, sessionID, encryptionKey) ==
    [type |-> type, sessionID |-> sessionID, encryptionKey |-> encryptionKey]

startBrokerSessionKeyUnchecked(env, brokerID, username, resp) ==
    IF brokerID = "local" THEN [req |-> NoSBRequest, msg |-> TeaMsg("pamIgnore", "", "")]
    ELSE [req |-> SBRequest(brokerID, username, Lang(env)),
          msg |-> IF resp.err \/ resp.sessionID = "" THEN TeaMsg("pamSystemError", "", "")
                  ELSE TeaMsg("SessionStarted", resp.sessionID, resp.encryptionKey)]

\* A command that selects "local" at the daemon like any other broker.
startBrokerSessionLocalSelected(env, brokerID, username, resp) ==
    [req |-> SBRequest(brokerID, username, Lang(env)),
     msg |-> IF resp.err THEN TeaMsg("pamSystemError", "", "")
             ELSE IF resp.sessionID = "" THEN TeaMsg("pamSystemError", "", "")
             ELSE IF resp.encryptionKey = "" THEN TeaMsg("pamSystemError", "", "")
             ELSE TeaMsg("SessionStarted", resp.sessionID, resp.encryptionKey)]

\* the request sent, if one is, and the message returned
startBrokerSession(env, brokerID, username, resp) ==
    IF brokerID = "local" THEN [req |-> NoSBRequest, msg |-> TeaMsg("pamIgnore", "", "")]
    ELSE [req |-> SBRequest(brokerID, username, Lang(env)),
          msg |-> IF resp.err THEN TeaMsg("pamSystemError", "", "")
                  ELSE IF resp.sessionID = "" THEN TeaMsg("pamSystemError", "", "")
                  ELSE IF resp.encryptionKey = "" THEN TeaMsg("pamSystemError", "", "")
                  ELSE TeaMsg("SessionStarted", resp.sessionID, resp.encryptionKey)]

SelInitState(env) ==
    sel = [pc |-> "ready", env |-> env, brokerID |-> "", resp |-> [err |-> FALSE, sessionID |-> "", encryptionKey |-> ""],
           req |-> NoSBRequest, msg |-> TeaMsg("none", "", "")]

\* The command runs: SelectBroker, when it is called, answers resp.
StartBrokerSession(brokerID, resp) ==
    /\ sel.pc = "ready"
    /\ LET r == startBrokerSession(sel.env, brokerID, "alice", resp)
       IN  sel' = [sel EXCEPT !.pc = "done", !.brokerID = brokerID,
                              !.resp = IF r.req.sent THEN resp ELSE @,
                              !.req = r.req, !.msg = r.msg]
    /\ UNCHANGED <<gdmVars, mgrVars, lateVars, storeVars, inflight, ids, temp, resel>>

InitSelect ==
    /\ GdmInitState(NoInputs) /\ MgrInitState /\ StoreIdle
    /\ inflight = Off /\ ids = Off /\ temp = Off /\ resel = Off /\ LateIdle
    /\ \E env \in Environments : SelInitState(env)

SelectNext == \E brokerID \in BrokerIDs, resp \in SBResponses : StartBrokerSession(brokerID, resp)

SpecSelect == InitSelect /\ [][SelectNext]_vars

IsSet(k) == sel.env[LangOrder[k]] # <<>>

\* C23 as stated: the lang of the request is the value of the first
\* non-empty variable among LANG, LC_MESSAGES, LC_ALL, less a trailing
\* ".UTF-8", and "C" when none is set.
C23_FirstNonEmptyWins ==
    sel.req.sent =>
        /\ \A k \in DOMAIN LangOrder :
              (IsSet(k) /\ \A j \in 1..(k - 1) : ~IsSet(j))
                  => sel.req.lang = TrimSuffix(sel.env[LangOrder[k]], UTF8)
        /\ (\A k \in DOMAIN LangOrder : ~IsSet(k)) => sel.req.lang = <<"C">>

\* C23, amended: the lang of the request is the value of the last non-empty
\* variable among LANG, LC_MESSAGES, LC_ALL, less a trailing ".UTF-8", and
\* "C" when none is set.
C23_LastNonEmptyWins ==
    sel.req.sent =>
        /\ \A k \in DOMAIN LangOrder :
              (IsSet(k) /\ \A j \in (k + 1)..Len(LangOrder) : ~IsSet(j))
                  => sel.req.lang = TrimSuffix(sel.env[LangOrder[k]], UTF8)
        /\ (\A k \in DOMAIN LangOrder : ~IsSet(k)) => sel.req.lang = <<"C">>

\* LANG and LC_ALL are set to different values, that of LC_ALL ends in .UTF-8
C23_Witness ==
    /\ sel.req.sent
    /\ sel.env["LANG"] = <<"fr_FR">>
    /\ sel.env["LC_ALL"] = <<"en_US", UTF8>>
    /\ sel.req.lang = <<"en_US">>

\* no variable is set
C23_WitnessDefault ==
    /\ sel.req.sent
    /\ \A k \in DOMAIN LangOrder : ~IsSet(k)
    /\ sel.req.lang = <<"C">>

SelectBrokerComplete ==
    ~sel.resp.err /\ sel.resp.sessionID # "" /\ sel.resp.encryptionKey # ""

\* C24: the command returns SessionStarted, with the session id and the key
\* of the response, only if SelectBroker succeeded and returned a session id
\* and an encryption key, both non-empty; when it failed, or returned no
\* session id, or no key, the command returns a system error and no session.
C24_SessionOnlyIfComplete ==
    sel.pc = "done" =>
        /\ sel.msg.type = "SessionStarted" =>
              /\ sel.req.sent /\ SelectBrokerComplete
              /\ sel.msg.sessionID = sel.resp.sessionID
              /\ sel.msg.encryptionKey = sel.resp.encryptionKey
        /\ (sel.req.sent /\ ~SelectBrokerComplete) =>
              /\ sel.msg.type = "pamSystemError"
              /\ sel.msg.sessionID = "" /\ sel.msg.encryptionKey = ""
        /\ (sel.req.sent /\ SelectBrokerComplete) => sel.msg.type = "SessionStarted"

\* the broker returned a session id and no key
C24_Witness ==
    /\ sel.pc = "done" /\ sel.req.sent
    /\ ~sel.resp.err /\ sel.resp.sessionID # "" /\ sel.resp.encryptionKey = ""
    /\ sel.msg.type = "pamSystemError"

\* the session is started
C24_WitnessStarted ==
    /\ sel.pc = "done"
    /\ sel.msg = TeaMsg("SessionStarted", "session1", "key1")

\* C35: the command for the broker "local" returns pamIgnore, the signal to
\* return PAM_IGNORE, and sends no SelectBroker request: the message carries
\* no session id and no encryption key, and no session is started; a
\* request that is sent names another broker, the selected one.
C35_LocalBrokerIgnored ==
    sel.pc = "done" =>
        /\ sel.brokerID = "local" =>
              /\ sel.msg = TeaMsg("pamIgnore", "", "")
              /\ sel.req = NoSBRequest
        /\ sel.req.sent => sel.req.brokerID = sel.brokerID /\ sel.brokerID # "local"
        /\ sel.msg.type = "SessionStarted" => sel.brokerID # "local"
        /\ sel.msg.type = "pamIgnore" <=> sel.brokerID = "local"

\* "local" was selected
C35_Witness ==
    /\ sel.pc = "done"
    /\ sel.brokerID = "local"
    /\ sel.msg.type = "pamIgnore"
    /\ ~sel.req.sent


-----------------------------------------------------------------------------
(***************************************************************************)
(* The temporary group records (internal/users/tempentries).               *)
(*                                                                         *)
(* RegisterGroup, GroupByID, GroupByName and the cleanup function are      *)
(* exercised by TestRegisterGroup and TestGroupByIDAndName; the generator  *)
(* is the IDGeneratorMock of the tests, which hands out the GIDs of a list *)
(* in order and fails when the list is used up.                            *)
(***************************************************************************)
MaxTempOps == 4
MaxGIDs == 2

gidToGenerate == 12345

GroupNames == {"root", "authd-temp-groups-test", "other-temp-group"}
TempGIDs == {0, gidToGenerate, gidToGenerate + 1}
Tokens == {"token1", "token2"}

\* the groups of the system: GID 0 (root) always exists
SystemGroups == {[name |-> "root", gid |-> 0]}

NoGroup == [name |-> "", gid |-> 0, passwd |-> ""]

RECURSIVE SeqsUpTo(_, _)
SeqsUpTo(S, n) ==
    IF n = 0 THEN {<<>>}
    ELSE LET shorter == SeqsUpTo(S, n - 1)
         IN  shorter \cup {Append(q, x) : q \in shorter, x \in S}

GIDsToGenerate == SeqsUpTo(TempGIDs, MaxGIDs)

newTemporaryGroupRecords(gids) == [gids |-> gids, groups |-> {}]

NameInUse(t, name) ==
    \/ \E g \in SystemGroups : g.name = name
    \/ \E g \in t.groups : g.name = name

GIDInUse(t, gid) ==
    \/ gid = 0
    \/ \E g \in SystemGroups : g.gid = gid
    \/ \E g \in t.groups : g.gid = gid

TempGroupByID(t, gid) ==
    IF \E g \in t.groups : g.gid = gid
    THEN [ok |-> TRUE, group |-> CHOOSE g \in t.groups : g.gid = gid]
    ELSE [ok |-> FALSE, group |-> NoGroup]

TempGroupByName(t, name) ==
    IF \E g \in t.groups : g.name = name
    THEN [ok |-> TRUE, group |-> CHOOSE g \in t.groups : g.name = name]
    ELSE [ok |-> FALSE, group |-> NoGroup]

\* the generator is asked until it gives a GID that is not in use
RECURSIVE generateLoop(_, _)
generateLoop(t, gids) ==
    IF gids = <<>> THEN [ok |-> FALSE, gid |-> 0, gids |-> gids]
    ELSE IF GIDInUse(t, Head(gids)) THEN generateLoop(t, Tail(gids))
    ELSE [ok |-> TRUE, gid |-> Head(gids), gids |-> Tail(gids)]

generateOnce(t, gids) ==
    IF gids = <<>> THEN [ok |-> FALSE, gid |-> 0, gids |-> gids]
    ELSE [ok |-> TRUE, gid |-> Head(gids), gids |-> Tail(gids)]

Failed(t) == [ok |-> FALSE, gid |-> 0, t |-> t]

RegisterGroupFirstGID(t, name, passwd) ==
    IF NameInUse(t, name) THEN Failed(t)
    ELSE LET g == generateOnce(t, t.gids)
         IN  IF ~g.ok THEN Failed([t EXCEPT !.gids = g.gids])
             ELSE [ok |-> TRUE, gid |-> g.gid,
                   t |-> [gids |-> g.gids,
                          groups |-> t.groups \cup {[name |-> name, gid |-> g.gid, passwd |-> passwd]}]]

RegisterGroupAnyName(t, name, passwd) ==
    LET g == generateLoop(t, t.gids)
    IN  IF ~g.ok THEN Failed([t EXCEPT !.gids = g.gids])
        ELSE [ok |-> TRUE, gid |-> g.gid,
              t |-> [gids |-> g.gids,
                     groups |-> t.groups \cup {[name |-> name, gid |-> g.gid, passwd |-> passwd]}]]

RegisterGroup(t, name, passwd) ==
    IF NameInUse(t, name) THEN Failed(t)
    ELSE LET g == generateLoop(t, t.gids)
         IN  IF ~g.ok THEN Failed([t EXCEPT !.gids = g.gids])
             ELSE [ok |-> TRUE, gid |-> g.gid,
                   t |-> [gids |-> g.gids,
                          groups |-> t.groups \cup {[name |-> name, gid |-> g.gid, passwd |-> passwd]}]]

cleanupKeeping(t, gid) == t

\* the function RegisterGroup returns next to the GID
cleanup(t, gid) == [t EXCEPT !.groups = {g \in @ : g.gid # gid}]

NoTempLast == [op |-> "none", name |-> "", gid |-> 0, ok |-> FALSE, group |-> NoGroup, asked |-> 0]

\* records: the table; cleanups: the cleanup functions returned and not yet
\* called; live: the groups the callers registered and did not clean up,
\* kept from what RegisterGroup returned; last: the last call, its result
\* and the number of GIDs it asked the generator for
TempInitState(gids) ==
    temp = [pc |-> "ready", records |-> newTemporaryGroupRecords(gids), cleanups |-> {},
            live |-> {}, last |-> NoTempLast, ops |-> 0]

DoRegisterGroup(name, passwd) ==
    /\ temp.pc = "ready" /\ temp.ops < MaxTempOps
    /\ LET r == RegisterGroup(temp.records, name, passwd)
       IN  temp' = [temp EXCEPT
                      !.records = r.t,
                      !.cleanups = IF r.ok THEN @ \cup {r.gid} ELSE @,
                      !.live = IF r.ok THEN @ \cup {[name |-> name, gid |-> r.gid]} ELSE @,
                      !.last = [op |-> "RegisterGroup", name |-> name, gid |-> r.gid, ok |-> r.ok,
                                group |-> NoGroup, asked |-> Len(temp.records.gids) - Len(r.t.gids)],
                      !.ops = @ + 1]
    /\ UNCHANGED <<gdmVars, mgrVars, lateVars, storeVars, inflight, ids, sel, resel>>

DoCleanup(gid) ==
    /\ temp.pc = "ready" /\ temp.ops < MaxTempOps
    /\ gid \in temp.cleanups
    /\ temp' = [temp EXCEPT
                  !.records = cleanup(@, gid),
                  !.cleanups = @ \ {gid},
                  !.live = {l \in @ : l.gid # gid},
                  !.last = [op |-> "cleanup", name |-> "", gid |-> gid, ok |-> TRUE, group |-> NoGroup, asked |-> 0],
                  !.ops = @ + 1]
    /\ UNCHANGED <<gdmVars, mgrVars, lateVars, storeVars, inflight, ids, sel, resel>>

DoTempGroupByID(gid) ==
    /\ temp.pc = "ready" /\ temp.ops < MaxTempOps
    /\ LET r == TempGroupByID(temp.records, gid)
       IN  temp' = [temp EXCEPT
                      !.last = [op |-> "GroupByID", name |-> "", gid |-> gid, ok |-> r.ok, group |-> r.group,
                                asked |-> 0],
                      !.ops = @ + 1]
    /\ UNCHANGED <<gdmVars, mgrVars, lateVars, storeVars, inflight, ids, sel, resel>>

DoTempGroupByName(name) ==
    /\ temp.pc = "ready" /\ temp.ops < MaxTempOps
    /\ LET r == TempGroupByName(temp.records, name)
       IN  temp' = [temp EXCEPT
                      !.last = [op |-> "GroupByName", name |-> name, gid |-> 0, ok |-> r.ok, group |-> r.group,
                                asked |-> 0],
                      !.ops = @ + 1]
    /\ UNCHANGED <<gdmVars, mgrVars, lateVars, storeVars, inflight, ids, sel, resel>>

InitTemp ==
    /\ GdmInitState(NoInputs) /\ MgrInitState /\ StoreIdle
    /\ inflight = Off /\ ids = Off /\ sel = Off /\ resel = Off /\ LateIdle
    /\ \E gids \in GIDsToGenerate : TempInitState(gids)

TempNext ==
    \/ \E name \in GroupNames, passwd \in Tokens : DoRegisterGroup(name, passwd)
    \/ \E gid \in TempGIDs : DoCleanup(gid)
    \/ \E gid \in TempGIDs : DoTempGroupByID(gid)
    \/ \E name \in GroupNames : DoTempGroupByName(name)

SpecTemp == InitTemp /\ [][TempNext]_vars

RegisterGroupStep == temp'.ops = temp.ops + 1 /\ temp'.last.op = "RegisterGroup"

\* the GIDs the mock hands out, in order, up to the first that is free
FirstFree(t) ==
    IF \E k \in DOMAIN t.gids : ~GIDInUse(t, t.gids[k])
    THEN CHOOSE k \in DOMAIN t.gids :
            /\ ~GIDInUse(t, t.gids[k])
            /\ \A j \in 1..(k - 1) : GIDInUse(t, t.gids[j])
    ELSE 0

\* C25: RegisterGroup of a name that is free asks the generator again while
\* the GID it gave is in use (GID 0 always is), returns the first GID given
\* that is free, and registers the group under that GID.
C25_FirstFreeGID ==
    [][(RegisterGroupStep /\ ~NameInUse(temp.records, temp'.last.name) /\ FirstFree(temp.records) > 0) =>
          LET k   == FirstFree(temp.records)
              gid == temp.records.gids[k]
          IN  /\ temp'.last.ok /\ temp'.last.gid = gid
              /\ gid # 0 /\ ~GIDInUse(temp.records, gid)
              /\ temp'.records.gids = SubSeq(temp.records.gids, k + 1, Len(temp.records.gids))
              /\ \E g \in temp'.records.groups : g.name = temp'.last.name /\ g.gid = gid
              /\ \A g \in temp'.records.groups : g.name = temp'.last.name => g.gid = gid]_vars

\* a group registered under the second GID given, the first being 0
C25_Witness ==
    /\ temp.last.op = "RegisterGroup" /\ temp.last.ok
    /\ temp.last.gid = gidToGenerate
    /\ temp.last.asked > 1

\* C26: RegisterGroup of a name that an existing group has (root) returns an
\* error and leaves the records as they are.
C26_NameInUseRejected ==
    [][(RegisterGroupStep /\ \E g \in SystemGroups : g.name = temp'.last.name) =>
          /\ ~temp'.last.ok
          /\ temp'.records.groups = temp.records.groups
          /\ temp'.cleanups = temp.cleanups
          /\ \A g \in temp'.records.groups : g.name # temp'.last.name]_vars

\* root was refused while a temporary group was registered and GIDs remained
C26_Witness ==
    /\ temp.last.op = "RegisterGroup" /\ temp.last.name = "root" /\ ~temp.last.ok
    /\ temp.records.groups # {}
    /\ temp.records.gids # <<>>

\* C27: GroupByID and GroupByName return a temporary group, with a passwd
\* that is not empty, exactly when RegisterGroup has returned it and its
\* cleanup function has not been called; otherwise they return an error.
C27_Lifecycle ==
    /\ temp.last.op = "GroupByID" =>
          /\ temp.last.ok <=> \E l \in temp.live : l.gid = temp.last.gid
          /\ temp.last.ok =>
                /\ temp.last.group.gid = temp.last.gid
                /\ [name |-> temp.last.group.name, gid |-> temp.last.gid] \in temp.live
                /\ temp.last.group.passwd # ""
    /\ temp.last.op = "GroupByName" =>
          /\ temp.last.ok <=> \E l \in temp.live : l.name = temp.last.name
          /\ temp.last.ok =>
                /\ temp.last.group.name = temp.last.name
                /\ [name |-> temp.last.name, gid |-> temp.last.group.gid] \in temp.live
                /\ temp.last.group.passwd # ""

\* a lookup fails for a group that was registered and cleaned up, while
\* another group is registered
C27_Witness ==
    /\ temp.last.op = "GroupByID" /\ ~temp.last.ok
    /\ temp.last.gid = gidToGenerate
    /\ temp.ops = MaxTempOps
    /\ temp.records.gids = <<>>
    /\ temp.cleanups = {gidToGenerate + 1}

\* a lookup by name finds a registered group
C27_WitnessFound ==
    /\ temp.last.op = "GroupByName" /\ temp.last.ok
    /\ temp.last.group.gid = gidToGenerate


-----------------------------------------------------------------------------
(***************************************************************************)
(* The emission of reselect-auth-mode events to the client.                *)
(*                                                                         *)
(* pollGdm hands every such event it receives on as a reselectAuthMode     *)
(* message; the limiter sits where these are emitted to the client.  It    *)
(* keeps, for each session, the time of the last emission, and drops an    *)
(* event that comes less than the window after it.  Times are in ms.       *)
(***************************************************************************)
MaxReselEvents == 4
MaxAdvances == 2

reselectWindow == 250

Sessions == {"session1", "session2"}
Delays == {1, reselectWindow - 1, reselectWindow}

Never == [set |-> FALSE, at |-> 0]
At(t) == [set |-> TRUE, at |-> t]

allowAlways(lastEmitted, now) == TRUE

\* whether an event that comes at time now is emitted
allow(lastEmitted, now) == ~lastEmitted.set \/ now - lastEmitted.at >= reselectWindow

\* lastEmitted: the limiter; emitted, dropped: what became of the events
ReselInitState ==
    resel = [pc |-> "ready", now |-> 0, lastEmitted |-> [s \in Sessions |-> Never],
             emitted |-> {}, dropped |-> {}, events |-> 0, advances |-> 0]

\* An event of a session is to be emitted.
ReselectAuthModeEvent(s) ==
    /\ resel.pc = "ready" /\ resel.events < MaxReselEvents
    /\ IF allow(resel.lastEmitted[s], resel.now)
       THEN resel' = [resel EXCEPT !.lastEmitted[s] = At(resel.now),
                                   !.emitted = @ \cup {[session |-> s, at |-> resel.now, nth |-> resel.events + 1]},
                                   !.events = @ + 1]
       ELSE resel' = [resel EXCEPT !.dropped = @ \cup {[session |-> s, at |-> resel.now, nth |-> resel.events + 1]},
                                   !.events = @ + 1]
    /\ UNCHANGED <<gdmVars, mgrVars, lateVars, storeVars, inflight, ids, sel, temp>>

ReselTimePasses(d) ==
    /\ resel.pc = "ready" /\ resel.advances < MaxAdvances
    /\ resel' = [resel EXCEPT !.now = @ + d, !.advances = @ + 1]
    /\ UNCHANGED <<gdmVars, mgrVars, lateVars, storeVars, inflight, ids, sel, temp>>

InitResel ==
    /\ GdmInitState(NoInputs) /\ MgrInitState /\ StoreIdle
    /\ inflight = Off /\ ids = Off /\ sel = Off /\ temp = Off /\ LateIdle
    /\ ReselInitState

ReselNext ==
    \/ \E s \in Sessions : ReselectAuthModeEvent(s)
    \/ \E d \in Delays : ReselTimePasses(d)

SpecResel == InitResel /\ [][ReselNext]_vars

\* C28: of the reselect-auth-mode events of a session, two that are emitted
\* are at least 250 ms apart; an event is emitted when it comes, or never
\* (an event that comes within the window is dropped); and an event that
\* comes when its session emitted none within the window is emitted.
C28_RateLimited ==
    /\ \A e1, e2 \in resel.emitted :
          (e1.session = e2.session /\ e1.nth < e2.nth) => e2.at - e1.at >= reselectWindow
    /\ \A e \in resel.dropped :
          /\ e \notin resel.emitted
          /\ \E e1 \in resel.emitted :
                e1.session = e.session /\ e1.nth < e.nth /\ e.at - e1.at < reselectWindow
    /\ \A e \in resel.emitted : e.at <= resel.now
    /\ Cardinality(resel.emitted) + Cardinality(resel.dropped) = resel.events

\* an event of a session was dropped, a later one of the session, and one
\* of the other session inside the window of the first, were emitted
C28_Witness ==
    /\ \E d \in resel.dropped, e \in resel.emitted : d.session = e.session /\ d.nth < e.nth
    /\ \E e1, e2 \in resel.emitted :
          e1.session # e2.session /\ e1.nth < e2.nth /\ e2.at - e1.at < reselectWindow


-----------------------------------------------------------------------------
(* NewManager when the cache does not open at the second attempt either.   *)

\* The runs of the start in which cache.New may fail with ErrNeedsClearing
\* twice, and the scan of /proc may fail.
ReopenInputs ==
    [disks |-> InitDisks, markers |-> BOOLEAN, times |-> {0}, users |-> {},
     oks |-> BOOLEAN, procs |-> {EmptyProc, [readable |-> FALSE, entries |-> {}]},
     reopens |-> BOOLEAN, removes |-> {TRUE}, cleanFails |-> {{}}]

ReopenNext ==
    \/ StartManager
    \/ DoAllUsers
    \/ ServeClear
    \/ DamageStore
    \/ StopManager

InitReopen == GdmInitState(NoInputs) /\ MgrInitState /\ StoreInitState(ReopenInputs) /\ AuxIdle

SpecReopen == InitReopen /\ [][ReopenNext]_vars

\* C29: when NewManager returns without error the cache is open, and when
\* cache.New failed with ErrNeedsClearing at both attempts NewManager
\* returns an error.
C29_ReturnsOpenCacheOrError ==
    last.op = "NewManager" =>
        /\ last.ok => last.cache = "open"
        /\ last.twice => (~last.ok /\ ~last.panics)


-----------------------------------------------------------------------------
(***************************************************************************)
(* UpdateUser in its two steps: the write of the entry, and the update of  *)
(* the local groups with the deletion that follows its failure.  Other     *)
(* callers read in between.                                                *)
(***************************************************************************)

\* the write of UpdateUser(u) passes; the call goes on to the local groups.
\* before: the name was stored before the call; rekeyed: this call or an
\* earlier one gave a stored name another uid or a stored uid another name.
BeginUpdateUser ==
    /\ phase = "up"
    /\ steps < MaxStoreSteps
    /\ inflight.pc # "written"
    /\ \E u \in storeIn.users :
          LET w == UpdateUserWrite(store, lgroups, u, clock.now)
          IN /\ w.wrote /\ w.err = NoErr
             /\ store' = w.s
             /\ last' = Report("UpdateUser.write", u, w)
             /\ inflight' = [pc |-> "written", u |-> u, passed |-> w,
                             before |-> (store.byName[u.Name].kind = "user"),
                             rekeyed |-> \/ (inflight.pc # "off" /\ inflight.rekeyed)
                                         \/ /\ store.byName[u.Name].kind = "user"
                                            /\ store.byName[u.Name].uid # u.UID
                                         \/ /\ store.byID[u.UID].kind = "user"
                                            /\ store.byID[u.UID].name # u.Name,
                             observed |-> FALSE]
    /\ steps' = steps + 1
    /\ UNCHANGED <<gdmVars, mgrVars, lateVars, ids, sel, temp, resel, storeIn, lgroups, dirty,
                   pendingClear, clock, phase, seen>>

\* the record UpdateUser(u) wrote, as a read returns it
Written(u) ==
    [Name |-> u.Name, UID |-> u.UID, GID |-> u.Groups[1].GID, Gecos |-> u.Gecos,
     Dir |-> u.Dir, Shell |-> u.Shell]

\* the last call was a read that returned the record of the call in flight
ObservedInFlight ==
    /\ inflight.pc = "written"
    /\ last.op \in {"UserByName", "UserByID"}
    /\ last.err = NoErr
    /\ last.out = <<Written(inflight.u)>>

\* the call in flight updates the local groups and returns
FinishUpdateUser ==
    /\ phase = "up"
    /\ inflight.pc = "written"
    /\ \E groupsOk \in storeIn.oks :
          LET r == UpdateUserLocalGroups([inflight.passed EXCEPT !.s = store, !.lg = lgroups],
                                         inflight.u, groupsOk)
          IN /\ store' = r.s
             /\ lgroups' = r.lg
             /\ dirty' = IF r.clear THEN markCorrupted(dirty) ELSE dirty
             /\ pendingClear' = (pendingClear \/ r.clear)
             /\ last' = Report("UpdateUser", inflight.u, r)
             /\ inflight' = [inflight EXCEPT !.pc = IF r.err # NoErr THEN "failed" ELSE "done",
                                             !.observed = ObservedInFlight]
    /\ UNCHANGED <<gdmVars, mgrVars, lateVars, ids, sel, temp, resel, storeIn, clock, phase, seen, steps>>

StepsUsers ==
    {UserInfo("alice", 1, "Alice L.", <<GroupInfo("grp2", 20)>>),
     UserInfo("alice", 2, "Alice", ValidGroups),
     UserInfo("bob", 2, "Bob", <<GroupInfo("grp2", 20)>>)}

StepsInputs ==
    [disks |-> {d \in InitDisks : Healthy(d.s)}, markers |-> {FALSE}, times |-> {0},
     users |-> StepsUsers, oks |-> BOOLEAN, procs |-> {EmptyProc}, reopens |-> {FALSE}, removes |-> {TRUE}, cleanFails |-> {{}}]

StepsNext ==
    \/ StartManager
    \/ BeginUpdateUser
    \/ FinishUpdateUser
    \/ DoUserByName
    \/ DoUserByID

InitSteps ==
    /\ GdmInitState(NoInputs) /\ MgrInitState /\ StoreInitState(StepsInputs)
    /\ inflight = Off /\ ids = Off /\ sel = Off /\ temp = Off /\ resel = Off /\ LateIdle

SpecSteps == InitSteps /\ [][StepsNext]_vars

\* C30: when the write of UpdateUser(u) passed and the update of the local
\* groups failed, the call returns the error and the entry it wrote is
\* deleted: the store has no user under the name and none under the uid of
\* the call, whether or not the user was stored before, and reads say so;
\* unless a call gave a stored name another uid, no entry of the name is left.
C30_FailedUpdateLeavesNoUser ==
    inflight.pc = "failed" =>
        /\ store.byName[inflight.u.Name] = NoRec
        /\ store.byID[inflight.u.UID] = NoRec
        /\ ~inflight.rekeyed => \A uid \in UIDs :
              store.byID[uid].kind = "user" => store.byID[uid].name # inflight.u.Name
        /\ last.op = "UpdateUser" => ("local groups" \in last.err /\ last.wrote)
        /\ (last.op = "UserByName" /\ last.arg = inflight.u.Name) => Is(last.err, NoDataFoundError)
        /\ (last.op = "UserByID" /\ last.arg = inflight.u.UID) => Is(last.err, NoDataFoundError)

\* the user was stored before the call, a reader saw the new record between
\* the write and the deletion, and the call failed
C30_Witness ==
    /\ inflight.pc = "failed"
    /\ inflight.before /\ inflight.observed
    /\ last.op = "UpdateUser"
    /\ store.byName[inflight.u.Name] = NoRec


-----------------------------------------------------------------------------
(* Manager.clear with each of its three calls failing or not.              *)

\* The runs of the clear: the database is damaged while the daemon runs,
\* reads ask for the clear, and cache.Clear, os.Remove and localgroups.Clean
\* fail or succeed.
ClearInputs ==
    [disks |-> {d \in InitDisks : d.s.file = "ok"}, markers |-> {FALSE}, times |-> {0},
     users |-> {}, oks |-> BOOLEAN, procs |-> {EmptyProc}, reopens |-> {FALSE},
     removes |-> BOOLEAN, cleanFails |-> {{}}]

ClearNext ==
    \/ StartManager
    \/ DoAllUsers
    \/ DoUserByID
    \/ ServeClear
    \/ DamageStore
    \/ StopManager

InitClear == GdmInitState(NoInputs) /\ MgrInitState /\ StoreInitState(ClearInputs) /\ AuxIdle

SpecClear == InitClear /\ [][ClearNext]_vars

ClearStep == pendingClear /\ ~pendingClear' /\ last'.op = "clear"

\* C31: clear removes the marker only after cache.Clear succeeded: when
\* cache.Clear fails the marker, the database and the local groups stay as
\* they are and the error is returned; a failing removal of the marker leaves
\* the marker and changes nothing else of the result; a failing
\* localgroups.Clean is returned as an error, with the database cleared and
\* the marker removed.
C31_MarkerRemovedAfterClear ==
    [][ClearStep =>
          /\ ~last'.clearOk =>
                /\ dirty' = dirty /\ store' = store /\ lgroups' = lgroups
                /\ last'.err # NoErr
          /\ (dirty /\ ~dirty') => (last'.clearOk /\ last'.removeOk /\ store' = CacheClear(store))
          /\ last'.clearOk =>
                /\ store' = CacheClear(store)
                /\ dirty' = (dirty /\ ~last'.removeOk)
                /\ (last'.err = NoErr) <=> last'.cleanOk
                /\ last'.cleanOk => lgroups' = LocalGroupsClean(lgroups, CacheClear(store))
                /\ ~last'.cleanOk => lgroups' = lgroups]_vars

\* the clear of a marked database failed at cache.Clear: the marker is there
C31_Witness ==
    /\ last.op = "clear" /\ ~last.clearOk /\ last.removeOk /\ last.cleanOk
    /\ dirty
    /\ \E n \in Names : lgroups[n] # {}

\* the removal of the marker failed: no error, the marker is there
C31_WitnessRemoveFailed ==
    /\ last.op = "clear" /\ last.clearOk /\ ~last.removeOk /\ last.cleanOk
    /\ last.err = NoErr /\ dirty /\ store = EmptyStore

\* localgroups.Clean failed: an error, the marker is gone
C31_WitnessCleanFailed ==
    /\ last.op = "clear" /\ last.clearOk /\ last.removeOk /\ ~last.cleanOk
    /\ last.err # NoErr /\ ~dirty /\ store = EmptyStore


-----------------------------------------------------------------------------
(***************************************************************************)
(* The cleanup goroutine with time (startUserCleanupRoutine).              *)
(*                                                                         *)
(* Each round of the loop evaluates time.After(opts.cleanupInterval) anew  *)
(* as it enters the select.  Time is counted in units of which the         *)
(* interval holds CleanupInterval; it passes at the select, during a clear *)
(* and during a sweep.                                                     *)
(***************************************************************************)
MaxLoopTime == 4
MaxLoopClears == 3

CleanupInterval == 2

armOnce(armed, now) == armed

\* the time from which the timer of the select counts, for a select entered
\* at time now
arm(armed, now) == now

\* pc: where the goroutine is; armed: the start of the timer of the select;
\* entered: when the goroutine came to the select; running: what it runs;
\* sweeps: when each sweep started and how long the select before it lasted;
\* lastClear: when the last clear was asked for; quiet: the longest the
\* goroutine has been at a select
ClInitState ==
    cl = [pc |-> "select", now |-> 0, armed |-> arm(0, 0), entered |-> 0, running |-> {},
          sweeps |-> {}, lastClear |-> Never, clears |-> 0, quiet |-> 0]

ClTimePasses ==
    /\ cl.pc # "stopped"
    /\ cl.now < MaxLoopTime
    /\ cl' = [cl EXCEPT !.now = @ + 1,
                        !.quiet = IF cl.pc = "select" /\ cl.now + 1 - cl.entered > @
                                  THEN cl.now + 1 - cl.entered ELSE @]
    /\ UNCHANGED <<gdmVars, mgrVars, storeVars, inflight, ids, sel, temp, resel, ses, gp>>

\* case <-m.doClear: a requester is sending
ClReceiveDoClear ==
    /\ cl.pc = "select"
    /\ cl.clears < MaxLoopClears
    /\ cl' = [cl EXCEPT !.pc = "clear", !.running = @ \cup {"clear"},
                        !.lastClear = At(cl.now), !.clears = @ + 1]
    /\ UNCHANGED <<gdmVars, mgrVars, storeVars, inflight, ids, sel, temp, resel, ses, gp>>

\* m.clear returns; the loop comes back to the select
ClClearDone ==
    /\ cl.pc = "clear"
    /\ cl' = [cl EXCEPT !.pc = "select", !.running = @ \ {"clear"},
                        !.armed = arm(@, cl.now), !.entered = cl.now]
    /\ UNCHANGED <<gdmVars, mgrVars, storeVars, inflight, ids, sel, temp, resel, ses, gp>>

\* case <-time.After(opts.cleanupInterval): the timer of this select fired
ClTimerFires ==
    /\ cl.pc = "select"
    /\ cl.now - cl.armed >= CleanupInterval
    /\ cl' = [cl EXCEPT !.pc = "sweep", !.running = @ \cup {"sweep"},
                        !.sweeps = @ \cup {[at |-> cl.now, idle |-> cl.now - cl.entered,
                                            lastClear |-> cl.lastClear]}]
    /\ UNCHANGED <<gdmVars, mgrVars, storeVars, inflight, ids, sel, temp, resel, ses, gp>>

\* m.cleanExpiredUserData returns; the loop comes back to the select
ClSweepDone ==
    /\ cl.pc = "sweep"
    /\ cl' = [cl EXCEPT !.pc = "select", !.running = @ \ {"sweep"},
                        !.armed = arm(@, cl.now), !.entered = cl.now]
    /\ UNCHANGED <<gdmVars, mgrVars, storeVars, inflight, ids, sel, temp, resel, ses, gp>>

\* case <-m.quit
ClQuit ==
    /\ cl.pc = "select"
    /\ cl' = [cl EXCEPT !.pc = "stopped"]
    /\ UNCHANGED <<gdmVars, mgrVars, storeVars, inflight, ids, sel, temp, resel, ses, gp>>

InitLoop ==
    /\ GdmInitState(NoInputs) /\ MgrInitState /\ StoreIdle
    /\ inflight = Off /\ ids = Off /\ sel = Off /\ temp = Off /\ resel = Off /\ ses = Off /\ gp = Off
    /\ ClInitState

LoopNext ==
    \/ ClTimePasses
    \/ ClReceiveDoClear
    \/ ClClearDone
    \/ ClTimerFires
    \/ ClSweepDone
    \/ ClQuit

SpecLoop == InitLoop /\ [][LoopNext]_vars

\* C32: a sweep starts only when the goroutine has been at its select for a
\* whole interval, so no clear was asked for within the interval before it;
\* as long as the goroutine is never left at a select for an interval, no
\* sweep runs at all; and a clear and a sweep never run together.
C32_SweepAfterQuietInterval ==
    /\ \A s \in cl.sweeps :
          /\ s.idle >= CleanupInterval
          /\ s.lastClear.set => s.at - s.lastClear.at >= CleanupInterval
    /\ cl.quiet < CleanupInterval => cl.sweeps = {}
    /\ Cardinality(cl.running) <= 1
    /\ cl.pc = "select" => cl.running = {}

\* two intervals have passed, clears were asked for in each, and no sweep ran
C32_Witness ==
    /\ cl.now >= 2 * CleanupInterval
    /\ cl.clears >= 2
    /\ cl.sweeps = {}
    /\ cl.quiet < CleanupInterval

\* a sweep ran an interval after a clear
C32_WitnessSweep ==
    \E s \in cl.sweeps : s.lastClear.set /\ s.at - s.lastClear.at = CleanupInterval


-----------------------------------------------------------------------------
(* The expiry sweep when localgroups.CleanUser fails for some users.       *)

BobDB == NewUserDB("bob", 2, 10, "Bob", <<"/home", "bob">>, "/bin/sh", 0)
TwoUsersDisk ==
    [s |-> [AliceStore EXCEPT !.byID[2] = BobDB, !.byName["bob"] = BobDB],
     lg |-> [n \in Names |-> {"localgrp"}]]

CleanFailInputs ==
    [disks |-> {TwoUsersDisk} \cup {d \in InitDisks : Healthy(d.s)}, markers |-> {FALSE},
     times |-> {0, 2}, users |-> {UserInfo("bob", 2, "Bob", ValidGroups)}, oks |-> {TRUE},
     procs |-> {EmptyProc, [readable |-> FALSE, entries |-> {}]}, reopens |-> {FALSE},
     removes |-> {TRUE}, cleanFails |-> SUBSET Names]

CleanFailNext ==
    \/ StartManager
    \/ DoUpdateUser
    \/ SweepTick
    \/ TimePasses
    \/ StopManager

InitCleanFail ==
    GdmInitState(NoInputs) /\ MgrInitState /\ StoreInitState(CleanFailInputs) /\ AuxIdle

SpecCleanFail == InitCleanFail /\ [][CleanFailNext]_vars

SweepStep == last'.op = "sweep" /\ steps' = steps + 1

\* C33: in a sweep CleanUser is called once for every user the database
\* removed, whether or not an earlier call failed: the local groups of every
\* removed user for whom it succeeds are cleaned; and the error of the sweep
\* is the error of the call for the last removed user: none when that call
\* succeeds, whatever the earlier ones did.
C33_LastCleanUserDecides ==
    [][SweepStep /\ getUIDsOfRunningProcesses(last'.arg).err = NoErr =>
          /\ Len(last'.called) = Cardinality(last'.cleaned)
          /\ {last'.called[i] : i \in DOMAIN last'.called} = last'.cleaned
          /\ \A n \in last'.cleaned :
                lgroups'[n] = IF n \in last'.fails THEN lgroups[n] ELSE {}
          /\ \A n \in Names \ last'.cleaned : lgroups'[n] = lgroups[n]
          /\ last'.err = IF /\ last'.called # <<>>
                            /\ last'.called[Len(last'.called)] \in last'.fails
                         THEN {"clean user"} ELSE NoErr]_vars

\* two users were removed, CleanUser failed for the first one and succeeded
\* for the second one, and the sweep returned no error
C33_Witness ==
    /\ last.op = "sweep"
    /\ Len(last.called) = 2
    /\ last.called[1] \in last.fails
    /\ last.called[2] \notin last.fails
    /\ lgroups[last.called[1]] # {}
    /\ lgroups[last.called[2]] = {}
    /\ last.err = NoErr

\* CleanUser failed for the last one of two removed users: the sweep failed
C33_WitnessLastFailed ==
    /\ last.op = "sweep"
    /\ Len(last.called) = 2
    /\ last.called[2] \in last.fails
    /\ last.err # NoErr


-----------------------------------------------------------------------------
(***************************************************************************)
(* The polls of GDM alone: pollGdm on answers with missing payloads and on *)
(* polls that fail.  A poll is due once at the start (gdmModel.Init) and   *)
(* then once for each gdmPollDone that Update receives.                    *)
(***************************************************************************)
PollEvents ==
    {GdmEvent("BrokerSelected", a) : a \in {"broker1", Nil}}
    \cup {GdmEvent("AuthModeSelected", Nil)}
    \cup {GdmEvent("IsAuthenticatedRequested", a) : a \in {"item", Nil}}
    \cup {GdmEvent("StageChanged", a) : a \in {StageOther, Nil}}

NoPoll == [polled |-> FALSE, w |-> FALSE, pollOk |-> TRUE, batch |-> <<>>, commands |-> <<>>]

GpInitState ==
    gp = [pc |-> "on", waitingAuth |-> FALSE, due |-> 1, polls |-> 0, last |-> NoPoll]

\* gdmModel.Init, and Update on gdmPollDone (gdmmodel.go:189-193): a poll
\* that is due is sent; each gdmPollDone it returns makes another one due.
GpPoll ==
    /\ gp.pc = "on"
    /\ gp.due > 0
    /\ gp.polls < MaxPolls
    /\ \E pollOk \in BOOLEAN, batch \in Batches(PollEvents) :
          LET r == pollGdm(gp.waitingAuth, pollOk, batch)
          IN gp' = [gp EXCEPT !.waitingAuth = r.waitingAuth,
                              !.due = @ - 1 + CountType(r.commands, "gdmPollDone"),
                              !.polls = @ + 1,
                              !.last = [polled |-> TRUE, w |-> gp.waitingAuth,
                                        pollOk |-> pollOk, batch |-> batch,
                                        commands |-> r.commands]]
    /\ UNCHANGED <<gdmVars, mgrVars, storeVars, inflight, ids, sel, temp, resel, cl, ses>>

\* Update on startAuthentication (gdmmodel.go:225-233)
GpStartAuthentication ==
    /\ gp.pc = "on"
    /\ gp' = [gp EXCEPT !.waitingAuth = UpdateStartAuthentication(@).waitingAuth]
    /\ UNCHANGED <<gdmVars, mgrVars, storeVars, inflight, ids, sel, temp, resel, cl, ses>>

InitPoll ==
    /\ GdmInitState(NoInputs) /\ MgrInitState /\ StoreIdle
    /\ inflight = Off /\ ids = Off /\ sel = Off /\ temp = Off /\ resel = Off
    /\ cl = Off /\ ses = Off
    /\ GpInitState

PollNext ==
    \/ GpPoll
    \/ GpStartAuthentication

SpecPoll == InitPoll /\ [][PollNext]_vars

PayloadTypes == {"BrokerSelected", "AuthModeSelected", "IsAuthenticatedRequested",
                 "StageChanged"}

\* an event of the batch has one of the four payloads and it is missing
MissingPayload(batch) ==
    \E i \in DOMAIN batch : batch[i].type \in PayloadTypes /\ batch[i].arg = Nil

\* the authentication requests among the first k events
RequestsUpTo(batch, k) ==
    {i \in 1..k : batch[i].type = "IsAuthenticatedRequested"}

\* the events whose missing payload the loop comes to look at, in a model
\* whose waitingAuth is w: an authentication request is looked at when the
\* model is waiting and no request came before it in the batch
Looked(w, batch) ==
    {i \in DOMAIN batch :
        /\ batch[i].type \in PayloadTypes /\ batch[i].arg = Nil
        /\ batch[i].type = "IsAuthenticatedRequested" =>
              w /\ RequestsUpTo(batch, i - 1) = {}}

FirstLooked(w, batch) ==
    CHOOSE i \in Looked(w, batch) : \A j \in Looked(w, batch) : i <= j

OnlySystemError(p) == p.commands = <<PamError("ErrSystem")>>

\* C34 as stated: whenever an event of the batch has a missing payload, or
\* the poll fails, the poll yields the system error alone and no poll is due.
C34_AnyMissingPayloadFails ==
    (gp.pc = "on" /\ gp.last.polled /\ (~gp.last.pollOk \/ MissingPayload(gp.last.batch)))
        => OnlySystemError(gp.last) /\ gp.due = 0

\* C34: when the poll fails, or an event of the batch has a missing payload
\* that the loop comes to look at (a request for authentication with no data
\* is dropped unlooked at when the model is not waiting for one), the poll
\* yields the system error alone: the events before it and gdmPollDone are
\* not returned, no poll is due and none is sent again; waitingAuth is
\* cleared if a request came up to that event while the model was waiting,
\* and is as before otherwise.  Any other poll returns gdmPollDone first.
C34_MissingPayloadStopsPolling ==
    [][/\ (gp.pc = "on" /\ gp.due = 0) => gp'.polls = gp.polls
       /\ (gp.pc = "on" /\ gp'.polls = gp.polls + 1) =>
          LET p == gp'.last
              fails == ~p.pollOk \/ Looked(p.w, p.batch) # {}
          IN /\ fails => OnlySystemError(p) /\ gp'.due = 0
             /\ (p.pollOk /\ Looked(p.w, p.batch) # {}) =>
                   gp'.waitingAuth =
                       (p.w /\ RequestsUpTo(p.batch, FirstLooked(p.w, p.batch)) = {})
             /\ ~p.pollOk => gp'.waitingAuth = p.w
             /\ ~fails => /\ p.commands # <<>>
                          /\ p.commands[1].type = "gdmPollDone"
                          /\ CountType(p.commands, "pamError") = 0
                          /\ gp'.due > 0]_vars

\* a poll whose first event cleared waitingAuth and gave a message and whose
\* second event has no payload: only the error is returned, no poll is due,
\* and waitingAuth stays cleared
C34_Witness ==
    /\ gp.pc = "on" /\ gp.last.polled /\ gp.last.pollOk
    /\ gp.last.w
    /\ Len(gp.last.batch) = 2
    /\ gp.last.batch[1] = GdmEvent("IsAuthenticatedRequested", "item")
    /\ gp.last.batch[2].arg = Nil
    /\ OnlySystemError(gp.last)
    /\ gp.due = 0
    /\ ~gp.waitingAuth

\* a poll that failed
C34_WitnessPollFailed ==
    gp.pc = "on" /\ gp.last.polled /\ ~gp.last.pollOk /\ OnlySystemError(gp.last) /\ gp.due = 0

\* a request with no data met a model that was not waiting: the poll goes on
C34_WitnessDropped ==
    /\ gp.pc = "on" /\ gp.last.polled /\ gp.last.pollOk
    /\ ~gp.last.w
    /\ MissingPayload(gp.last.batch)
    /\ gp.due > 0


-----------------------------------------------------------------------------
(***************************************************************************)
(* The end of the client model: model.quit and endSession.                 *)
(*                                                                         *)
(* tea.Sequence runs its commands one after the other; a command that is   *)
(* nil is skipped, and a nil message is not delivered.  The sessions the   *)
(* model makes current come from outside.                                  *)
(***************************************************************************)
MaxSessionStarts == 3

SessionInfos == {"session1", "session2"}
NilSession == "nil"

EndSessionCmd(sessionID) == [kind |-> "endSession", sessionID |-> sessionID]
QuitCmd == [kind |-> "Quit", sessionID |-> NilSession]

\* endSession (part_001:99-113): no command for no session; else the command
\* that calls EndSession for the session it was given
endSession(currentSession) ==
    IF currentSession = NilSession THEN <<>> ELSE <<EndSessionCmd(currentSession)>>

\* the command of endSession when it runs (part_001:103-112): the request
\* sent and the message returned, given whether client.EndSession succeeds
runEndSession(cmd, ok) ==
    [request |-> cmd.sessionID, msg |-> IF ok THEN "SessionEnded" ELSE "nil"]

\* A quit that does not look at the session.
quitAtOnce(currentSession) == <<QuitCmd>>

\* model.quit (part_001:92-97): the commands of the sequence returned
modelQuit(currentSession) ==
    IF currentSession = NilSession THEN <<QuitCmd>>
    ELSE endSession(currentSession) \o <<QuitCmd>>

\* pc: "running", "ending" once quit was called, "quit" once tea.Quit ran;
\* started: the sessions made current so far; atQuit: the session current
\* when quit was called; cmds: the commands of the sequence still to run;
\* requests: the EndSession requests sent, each with whether it succeeded;
\* msgs: the messages the commands returned to the program
SesInitState ==
    ses = [pc |-> "running", currentSession |-> NilSession, started |-> <<>>,
           atQuit |-> NilSession, cmds |-> <<>>, requests |-> <<>>, msgs |-> <<>>]

\* a session becomes the current one
SesSessionStarted(s) ==
    /\ ses.pc \in {"running", "ending"}
    /\ Len(ses.started) < MaxSessionStarts
    /\ ses' = [ses EXCEPT !.currentSession = s, !.started = Append(@, s)]
    /\ UNCHANGED <<gdmVars, mgrVars, storeVars, inflight, ids, sel, temp, resel, cl, gp>>

\* the model calls quit and hands the sequence to the program
SesQuit ==
    /\ ses.pc = "running"
    /\ ses' = [ses EXCEPT !.pc = "ending", !.atQuit = ses.currentSession,
                          !.cmds = modelQuit(ses.currentSession)]
    /\ UNCHANGED <<gdmVars, mgrVars, storeVars, inflight, ids, sel, temp, resel, cl, gp>>

\* the program runs the next command of the sequence: endSession's
SesRunEndSession(ok) ==
    /\ ses.pc = "ending"
    /\ ses.cmds # <<>> /\ Head(ses.cmds).kind = "endSession"
    /\ LET r == runEndSession(Head(ses.cmds), ok)
       IN ses' = [ses EXCEPT !.cmds = Tail(@),
                             !.requests = Append(@, [sessionID |-> r.request, ok |-> ok]),
                             !.msgs = IF r.msg = "nil" THEN @ ELSE Append(@, r.msg)]
    /\ UNCHANGED <<gdmVars, mgrVars, storeVars, inflight, ids, sel, temp, resel, cl, gp>>

\* the program runs the next command of the sequence: tea.Quit
SesRunQuit ==
    /\ ses.pc = "ending"
    /\ ses.cmds # <<>> /\ Head(ses.cmds).kind = "Quit"
    /\ ses' = [ses EXCEPT !.cmds = Tail(@), !.pc = "quit"]
    /\ UNCHANGED <<gdmVars, mgrVars, storeVars, inflight, ids, sel, temp, resel, cl, gp>>

InitSes ==
    /\ GdmInitState(NoInputs) /\ MgrInitState /\ StoreIdle
    /\ inflight = Off /\ ids = Off /\ sel = Off /\ temp = Off /\ resel = Off
    /\ cl = Off /\ gp = Off
    /\ SesInitState

SesNext ==
    \/ \E s \in SessionInfos : SesSessionStarted(s)
    \/ SesQuit
    \/ \E ok \in BOOLEAN : SesRunEndSession(ok)
    \/ SesRunQuit

SpecSes == InitSes /\ [][SesNext]_vars

\* C36: when the program has quit and a session was current as quit was
\* called, one EndSession request was sent before, for that session; when
\* none was current, no request was sent; and the only message an
\* EndSession ever gives is SessionEnded, when it succeeded: a failed one
\* gives no message, hence no PAM error.
C36_EndSessionBeforeQuit ==
    /\ ses.pc = "quit" =>
          /\ ses.atQuit # NilSession =>
                /\ Len(ses.requests) = 1
                /\ ses.requests[1].sessionID = ses.atQuit
          /\ ses.atQuit = NilSession => ses.requests = <<>>
    /\ ses.pc = "running" => ses.requests = <<>>
    /\ ses.pc # "off" =>
          /\ \A i \in DOMAIN ses.msgs : ses.msgs[i] = "SessionEnded"
          /\ Len(ses.msgs) = Cardinality({i \in DOMAIN ses.requests : ses.requests[i].ok})

\* the program quit after an EndSession for the current session that failed:
\* no message was given
C36_Witness ==
    /\ ses.pc = "quit"
    /\ ses.atQuit = "session1"
    /\ ses.requests = <<[sessionID |-> "session1", ok |-> FALSE]>>
    /\ ses.msgs = <<>>

\* the program quit with no session and no request
C36_WitnessNoSession ==
    ses.pc = "quit" /\ ses.atQuit = NilSession /\ ses.requests = <<>>

\* the session changed after quit was called: the request names the session
\* that was current at the call
C36_WitnessChanged ==
    /\ ses.pc = "quit"
    /\ ses.atQuit = "session1" /\ ses.currentSession = "session2"
    /\ ses.requests = <<[sessionID |-> "session1", ok |-> TRUE]>>
    /\ ses.msgs = <<"SessionEnded">>

=============================================================================
